---- MODULE Spec2Model ----
(***************************************************************************)
(* Model of providers/mlx5/verbs.c: the dedicated-BF (dynamic bfreg)       *)
(* allocator, thread domains, protection domains and parent domains, and   *)
(* the queue-pair / SRQ / receive-WQ teardown with completion-queue        *)
(* scavenging; completion-queue creation and resize; the sizing of send    *)
(* and receive queues in create_qp and create_wq; mlx5_modify_qp and       *)
(* modify_dct; the creation of SRQs and QPs under the table mutexes;       *)
(* mlx5_modify_wq; the destroy of a tag-matching SRQ and its command QP.   *)
(*                                                                         *)
(* Threads of the host application call the verbs concurrently.  A verb    *)
(* that takes a lock is split at each lock acquisition, a creating verb    *)
(* that takes a table mutex also where its kernel command returns; a verb  *)
(* that only uses atomics and kernel commands is one step.                 *)
(***************************************************************************)
EXTENDS Integers, Sequences, FiniteSets, TLC

\* ------------------------------------------------------------------ bounds
NumThreads == 2
NumDynBfregs == 2          \* ctx->num_dyn_bfregs
MaxPd == 1                 \* base protection domains the application allocates
MaxParent == 1             \* parent domains the application allocates
NumCqs == 2                \* completion queues of the context
MaxQp == 2                 \* queue pairs alive at once
MaxCqe == 3                \* completions waiting in the CQs at once
MaxUnderflow == 1          \* how far below zero a reference count is followed

\* --------------------------------------------------- adapter layout constants
NumUarsPerPage == 1                    \* ctx->num_uars_per_page
MLX5_NUM_NON_FP_BFREGS_PER_UAR == 2
MLX5_ADAPTER_PAGE_SIZE == 4096
MLX5_BF_OFFSET == 2048
BfRegSize == 256                       \* ctx->bf_reg_size

Threads == 1..NumThreads
Slots == 0..(NumDynBfregs - 1)
TdIds == 1..(NumDynBfregs + 1)
PdIds == 1..MaxPd
ParIds == 1..MaxParent
CqIds == 1..NumCqs
QpIds == 1..MaxQp
NULL == 0

VARIABLES
    pc,                 \* per thread: position inside the verb it is executing
    op,                 \* per thread: the verb called last and its argument
    ret,                \* per thread: result of the verb called last
    trace,              \* per thread: kernel commands and releases of that call
    t_td,               \* per thread: struct mlx5_td of the running call
    t_idx,              \* per thread: bfreg_dyn_index of the running call
    count_dyn_bfregs,   \* ctx->count_dyn_bfregs[]
    bfs_uar,            \* ctx->bfs[mmap_bf_index].uar, per page group
    bfs_reg,            \* ctx->bfs[start_dyn_bfregs_index + i].reg
    next_page,          \* pages handed out by mlx5_mmap so far
    last_get,           \* the slot mlx5_get_bfreg_index returned last, or -1
    dyn_bfregs_mutex,   \* ctx->dyn_bfregs_mutex: NULL or the holding thread
    td_live, td_bf, td_refcount,
    pd_live, pd_refcount,
    par_live, par_refcount, par_pd, par_td,
    cqe_version,        \* ctx->cqe_version: 0 legacy indexing, 1 uidx indexing
    mctx,               \* ctx->max_sq_desc_sz, max_rq_desc_sz, max_send_wqebb,
                        \* max_recv_wr, max_srq_recv_wr
    cq_live,            \* the CQs create_cq has made and nobody destroyed
    mcq,                \* struct mlx5_cq: buffers and capacity
    cq_cqn,             \* cq->cqn, assigned by the kernel
    cq_lock,            \* cq->lock: NULL or the holding thread
    cq_cqes,            \* the completions waiting in the CQ, oldest first
    qp_live, qps,       \* struct mlx5_qp objects
    srq_live, srqs,     \* struct mlx5_srq objects
    wq_live, wqs,       \* struct mlx5_rwq objects
    k_live,             \* objects the kernel holds (created, not destroyed)
    uidx_table,         \* ctx->uidx_table: dense index -> object
    qp_table,           \* ctx->qp_table: qp number -> QP (legacy indexing)
    srq_table,          \* ctx->srq_table: srq number -> SRQ
    qp_table_mutex,     \* ctx->qp_table_mutex: NULL or the holding thread
    srq_table_mutex,    \* ctx->srq_table_mutex: NULL or the holding thread
    t_qp,               \* per thread: the QP of the running call
    t_obj               \* per thread: the SRQ or WQ of the running call

tdvars == <<t_td, t_idx, count_dyn_bfregs, bfs_uar, bfs_reg, next_page,
            last_get, dyn_bfregs_mutex, td_live, td_bf, td_refcount>>
pdvars == <<pd_live, pd_refcount, par_live, par_refcount, par_pd, par_td>>
thvars == <<pc, op, ret, trace>>
ctxvars == <<cqe_version, mctx>>
cqobjs == <<cq_live, mcq>>
cqvars == <<cq_cqn, cq_lock, cq_cqes>>
objvars == <<qp_live, qps, srq_live, srqs, wq_live, wqs, k_live>>
tblvars == <<uidx_table, qp_table, srq_table, qp_table_mutex,
            srq_table_mutex>>
qpvars == <<ctxvars, cqobjs, cqvars, objvars, tblvars, t_qp, t_obj>>
vars == <<thvars, tdvars, pdvars, qpvars>>

\* ---------------------------------------------------------------- helpers
num_bfregs_per_page == NumUarsPerPage * MLX5_NUM_NON_FP_BFREGS_PER_UAR

uar_page_index(i) == i \div num_bfregs_per_page

Groups == 0..uar_page_index(NumDynBfregs - 1)

\* dev->page_size: a system page holds NumUarsPerPage adapter pages
page_size == NumUarsPerPage * MLX5_ADAPTER_PAGE_SIZE

\* the address mlx5_mmap returns for the n-th page it maps (n = 1, 2, ...)
mmap_addr(n) == n * page_size

\* lines 232-238: the register address of slot i on the page mapped at uar
bf_reg_addr(uar, i) ==
    uar
    + ((i % num_bfregs_per_page) \div MLX5_NUM_NON_FP_BFREGS_PER_UAR)
          * MLX5_ADAPTER_PAGE_SIZE
    + MLX5_BF_OFFSET
    + (i % MLX5_NUM_NON_FP_BFREGS_PER_UAR) * BfRegSize

Min(S) == CHOOSE x \in S : \A y \in S : x <= y

\* a scan that falls back to slot 0 instead of reporting that none is free
FirstFreeSlot_fallback(cnt) ==
    IF \E i \in Slots : cnt[i] = 0
    THEN Min({i \in Slots : cnt[i] = 0})
    ELSE 0

\* a scan that resumes behind the slot handed out last
FirstFreeSlot_next(cnt) ==
    IF \E i \in Slots : cnt[i] = 0 /\ i > last_get
    THEN Min({i \in Slots : cnt[i] = 0 /\ i > last_get})
    ELSE IF \E i \in Slots : cnt[i] = 0
    THEN Min({i \in Slots : cnt[i] = 0})
    ELSE -1

\* the scan of mlx5_get_bfreg_index: first slot whose counter is zero, or -1
FirstFreeSlot(cnt) ==
    IF \E i \in Slots : cnt[i] = 0
    THEN Min({i \in Slots : cnt[i] = 0})
    ELSE -1

INT_MAX == 2147483647
ENOMEM == 12

EINVAL == 22

\* the value that stands for a long long above INT_MAX: the checker's
\* integers end at INT_MAX
TooBig == -1

RECURSIVE round_up_from(_, _)
\* the loop of mlx5_round_up_power_of_two, line 462
round_up_from(r, sz) ==
    IF r < sz
    THEN IF r > INT_MAX - r THEN TooBig ELSE round_up_from(2 * r, sz)
    ELSE r

\* mlx5_round_up_power_of_two, lines 458-471
mlx5_round_up_power_of_two(sz) ==
    IF round_up_from(1, sz) = TooBig THEN -ENOMEM ELSE round_up_from(1, sz)

\* align_queue_size, lines 473-476
align_queue_size(req) == mlx5_round_up_power_of_two(req)

\* ------------------------------------------------------ queue sizing

\* sizes of the descriptor segments the sizing functions add up
MLX5_SEND_WQE_BB == 64
sizeof_mlx5_wqe_ctrl_seg == 16
sizeof_mlx5_wqe_raddr_seg == 16
sizeof_mlx5_wqe_atomic_seg == 16
sizeof_mlx5_wqe_umr_ctrl_seg == 48
sizeof_mlx5_wqe_mkey_context_seg == 64
sizeof_mlx5_wqe_umr_klm_seg == 16
sizeof_mlx5_wqe_datagram_seg == 48
sizeof_mlx5_wqe_xrc_seg == 16
sizeof_mlx5_wqe_eth_seg == 32
sizeof_mlx5_wqe_eth_pad == 16
sizeof_mlx5_wqe_data_seg == 16
sizeof_mlx5_wqe_inl_data_seg == 4
sizeof_mlx5_wqe_srq_next_seg == 16
sizeof_mlx5_rwqe_sig == 16

\* the limits the adapter reports, kept in struct mlx5_context
AdapterCtx ==
    [max_sq_desc_sz |-> 512, max_rq_desc_sz |-> 512,
     max_send_wqebb |-> 32768, max_recv_wr |-> 32768,
     max_srq_recv_wr |-> 32768]

InitCtx == mctx = AdapterCtx

max_int(a, b) == IF a > b THEN a ELSE b

\* division of C: the quotient is truncated towards zero
c_div(a, b) == IF a >= 0 THEN a \div b ELSE -((-a) \div b)

\* align(val, a) for a power of two a
align(val, a) == ((val + a - 1) \div a) * a

\* what align(val, a) adds to val, for a power of two a; align returns an
\* unsigned long
align_pad(val, a) == (a - (val % a)) % a

\* the sum a + b of an unsigned long addition stored in an int: the low 32
\* bits, taken as a signed number
int_add(a, b) ==
    IF a >= 0 /\ b >= 0 /\ a > INT_MAX - b
    THEN ((a - INT_MAX) - 1) + ((b - INT_MAX) - 1)
    ELSE a + b

\* twice x in a 32-bit int, wrapping
int_twice(x) ==
    IF x >= 0
    THEN IF x > INT_MAX - x
         THEN ((x - INT_MAX) - 1) + ((x - INT_MAX) - 1)
         ELSE 2 * x
    ELSE IF x < (-INT_MAX - x) - 1
         THEN ((x + INT_MAX) + 1) + ((x + INT_MAX) + 1)
         ELSE 2 * x

RECURSIVE int_times_pow2(_, _)
\* the product a * b of a size_t multiplication stored in an int, for a
\* power of two b: the low 32 bits
int_times_pow2(a, b) ==
    IF b = 1 THEN a ELSE int_times_pow2(int_twice(a), b \div 2)

RECURSIVE mlx5_ilog2(_)
\* mlx5_ilog2 for a power of two n
mlx5_ilog2(n) == IF n <= 1 THEN 0 ELSE 1 + mlx5_ilog2(n \div 2)

\* sq_overhead, lines 1001-1058
sq_overhead(qp_type, dc_type, underlay) ==
    LET mw_bind_size ==
            sizeof_mlx5_wqe_umr_ctrl_seg + sizeof_mlx5_wqe_mkey_context_seg
            + max_int(sizeof_mlx5_wqe_umr_klm_seg, 64)
        rc == sizeof_mlx5_wqe_ctrl_seg
              + max_int(sizeof_mlx5_wqe_atomic_seg + sizeof_mlx5_wqe_raddr_seg,
                        mw_bind_size)
        xrc == sizeof_mlx5_wqe_ctrl_seg + sizeof_mlx5_wqe_xrc_seg
               + sizeof_mlx5_wqe_raddr_seg
    IN
    CASE qp_type = "DRIVER" ->
           IF dc_type # "DCI" THEN -EINVAL
           ELSE sizeof_mlx5_wqe_datagram_seg + rc
      [] qp_type = "RC" -> rc
      [] qp_type = "UC" ->
           sizeof_mlx5_wqe_ctrl_seg
           + max_int(sizeof_mlx5_wqe_raddr_seg, mw_bind_size)
      [] qp_type = "UD" ->
           sizeof_mlx5_wqe_ctrl_seg + sizeof_mlx5_wqe_datagram_seg
           + ( IF underlay
               THEN sizeof_mlx5_wqe_eth_seg + sizeof_mlx5_wqe_eth_pad
               ELSE 0 )
      [] qp_type = "XRC_SEND" ->
           max_int(sizeof_mlx5_wqe_ctrl_seg + mw_bind_size, xrc)
      [] qp_type = "XRC_RECV" -> max_int(0, xrc)
      [] qp_type = "RAW_PACKET" ->
           sizeof_mlx5_wqe_ctrl_seg + sizeof_mlx5_wqe_eth_seg
      [] OTHER -> -EINVAL

\* mlx5_calc_send_wqe, lines 1060-1095.  attr.max_tso_header is -1 when
\* the request carries none.  The comparison of line 1085 is unsigned: a
\* negative max_gather compares as a number above every max_send_sge.
\* The sum of line 1074 is an unsigned long stored in the int inl_size.
mlx5_calc_send_wqe(ctx, attr) ==
    LET overhead == sq_overhead(attr.qp_type, attr.dc_type, attr.underlay)
        inl_data == sizeof_mlx5_wqe_inl_data_seg + attr.cap.max_inline_data
        inl_size == IF attr.cap.max_inline_data # 0
                    THEN int_add(int_add(overhead, inl_data),
                                 align_pad(inl_data, 16))
                    ELSE 0
        size == IF attr.max_tso_header >= 0
                THEN overhead + align(attr.max_tso_header, 16)
                ELSE overhead
        max_gather == (ctx.max_sq_desc_sz - size)
                      \div sizeof_mlx5_wqe_data_seg
        tot_size == max_int(size + attr.cap.max_send_sge
                                   * sizeof_mlx5_wqe_data_seg,
                            inl_size)
    IN
    IF overhead < 0 THEN overhead
    ELSE IF ctx.max_sq_desc_sz >= size /\ attr.cap.max_send_sge > max_gather
    THEN -EINVAL
    ELSE IF tot_size > ctx.max_sq_desc_sz THEN -EINVAL
    ELSE align(tot_size, MLX5_SEND_WQE_BB)

\* a receive descriptor size that does not look at the SRQ of the request
mlx5_calc_rcv_wqe_own_queue(ctx, attr, wq_sig) ==
    LET num_scatter == max_int(attr.cap.max_recv_sge, 1)
        size == sizeof_mlx5_wqe_data_seg * num_scatter
                + ( IF wq_sig THEN sizeof_mlx5_rwqe_sig ELSE 0 )
    IN
    IF size > ctx.max_rq_desc_sz THEN -EINVAL
    ELSE mlx5_round_up_power_of_two(size)

\* mlx5_calc_rcv_wqe, lines 1097-1118
mlx5_calc_rcv_wqe(ctx, attr, wq_sig) ==
    LET num_scatter == max_int(attr.cap.max_recv_sge, 1)
        size == sizeof_mlx5_wqe_data_seg * num_scatter
                + ( IF wq_sig THEN sizeof_mlx5_rwqe_sig ELSE 0 )
    IN
    IF attr.srq # NULL THEN 0
    ELSE IF size > ctx.max_rq_desc_sz THEN -EINVAL
    ELSE mlx5_round_up_power_of_two(size)

\* the fields of struct mlx5_wq the sizing functions and
\* mlx5_init_qp_indices write; calloc leaves them zero
NoWqSize == [wqe_cnt |-> 0, wqe_shift |-> 0, max_gs |-> 0, max_post |-> 0,
             offset |-> 0, head |-> 0, tail |-> 0]

\* a send queue one block longer than the request needs
sq_wqe_cnt_plus(wq_size) == c_div(wq_size, MLX5_SEND_WQE_BB) + 1

\* mlx5_calc_sq_size, line 1156
sq_wqe_cnt(wq_size) == c_div(wq_size, MLX5_SEND_WQE_BB)

\* mlx5_calc_sq_size, lines 1142-1144: qp->max_inline_data, which the
\* function also writes back to attr->cap.max_inline_data, for a descriptor
\* of wqe_size bytes
sq_max_inline_data(attr, wqe_size) ==
    wqe_size - sq_overhead(attr.qp_type, attr.dc_type, attr.underlay)
    - sizeof_mlx5_wqe_inl_data_seg

\* mlx5_calc_sq_size, lines 1120-1167: the value returned, the send queue
\* fields and qp->max_inline_data as the function leaves them
mlx5_calc_sq_size(ctx, attr) ==
    LET wqe_size == mlx5_calc_send_wqe(ctx, attr)
        bytes == attr.cap.max_send_wr * wqe_size
        wq_size == mlx5_round_up_power_of_two(bytes)
        inl == sq_max_inline_data(attr, wqe_size)
    IN
    IF attr.cap.max_send_wr = 0
    THEN [ret |-> 0, sq |-> NoWqSize, max_inline_data |-> 0]
    ELSE IF wqe_size < 0
    THEN [ret |-> wqe_size, sq |-> NoWqSize, max_inline_data |-> 0]
    ELSE IF wqe_size > ctx.max_sq_desc_sz
    THEN [ret |-> -EINVAL, sq |-> NoWqSize, max_inline_data |-> 0]
    ELSE IF attr.cap.max_send_wr > INT_MAX \div ctx.max_sq_desc_sz
    THEN [ret |-> -EINVAL, sq |-> NoWqSize, max_inline_data |-> inl]
    ELSE IF sq_wqe_cnt(wq_size) > ctx.max_send_wqebb
    THEN [ret |-> -EINVAL,
          sq |-> [NoWqSize EXCEPT !.wqe_cnt = sq_wqe_cnt(wq_size)],
          max_inline_data |-> inl]
    ELSE [ret |-> wq_size,
          sq |-> [NoWqSize EXCEPT
                    !.wqe_cnt = sq_wqe_cnt(wq_size),
                    !.wqe_shift = mlx5_ilog2(MLX5_SEND_WQE_BB),
                    !.max_gs = attr.cap.max_send_sge,
                    !.max_post = c_div(wq_size, wqe_size)],
          max_inline_data |-> inl]

\* the receive queue fields for a queue of wq_size bytes of descriptors of
\* wqe_size bytes, lines 1208-1215 and 1244-1250; extra is what the
\* descriptor holds besides scatter entries
rq_fields(wq_size, wqe_size, extra) ==
    [NoWqSize EXCEPT
       !.wqe_cnt = wq_size \div wqe_size,
       !.wqe_shift = mlx5_ilog2(wqe_size),
       !.max_post = 2 ^ mlx5_ilog2(wq_size \div wqe_size),
       !.max_gs = (wqe_size - extra) \div sizeof_mlx5_wqe_data_seg]

\* mlx5_calc_rq_size, lines 1219-1258
mlx5_calc_rq_size(ctx, attr, wq_sig) ==
    LET wqe_size == mlx5_calc_rcv_wqe(ctx, attr, wq_sig)
        wq_size == mlx5_round_up_power_of_two(attr.cap.max_recv_wr) * wqe_size
        floored == max_int(wq_size, MLX5_SEND_WQE_BB)
    IN
    IF attr.cap.max_recv_wr = 0 THEN [ret |-> 0, rq |-> NoWqSize]
    ELSE IF attr.cap.max_recv_wr > ctx.max_recv_wr
    THEN [ret |-> -EINVAL, rq |-> NoWqSize]
    ELSE IF wqe_size < 0 \/ wqe_size > ctx.max_rq_desc_sz
    THEN [ret |-> -EINVAL, rq |-> NoWqSize]
    ELSE IF wqe_size # 0
    THEN [ret |-> floored,
          rq |-> rq_fields(floored, wqe_size,
                           IF wq_sig THEN sizeof_mlx5_rwqe_sig ELSE 0)]
    ELSE [ret |-> wq_size, rq |-> NoWqSize]

\* mlx5_calc_wq_size, lines 1260-1282
mlx5_calc_wq_size(ctx, attr, wq_sig) ==
    LET s == mlx5_calc_sq_size(ctx, attr)
        r == mlx5_calc_rq_size(ctx, attr, wq_sig)
    IN
    IF s.ret < 0
    THEN [ret |-> s.ret, sq |-> s.sq, rq |-> NoWqSize,
          max_inline_data |-> s.max_inline_data]
    ELSE IF r.ret < 0
    THEN [ret |-> r.ret, sq |-> s.sq, rq |-> r.rq,
          max_inline_data |-> s.max_inline_data]
    ELSE [ret |-> s.ret + r.ret,
          sq |-> [s.sq EXCEPT !.offset = r.ret],
          rq |-> [r.rq EXCEPT !.offset = 0],
          max_inline_data |-> s.max_inline_data]

\* mlx5_calc_rwq_size, lines 1184-1185
rwq_depth_refused(ctx, max_wr) == max_wr = 0

\* mlx5_calc_rwq_size, lines 1173-1217.  mprq is "none" without vendor
\* attributes, "bad_mask" for a comp_mask outside
\* DV_CREATE_WQ_SUPPORTED_COMP_MASK, "plain" or "striding" otherwise.
mlx5_calc_rwq_size(ctx, attr, wq_sig) ==
    LET is_mprq == IF attr.mprq = "striding" THEN 1 ELSE 0
        num_scatter == max_int(attr.max_sge, 1)
        extra == ( IF wq_sig THEN sizeof_mlx5_rwqe_sig ELSE 0 )
                 + sizeof_mlx5_wqe_srq_next_seg * is_mprq
        req_size == sizeof_mlx5_wqe_data_seg * num_scatter + extra
        wqe_size == mlx5_round_up_power_of_two(req_size)
        wq_size == max_int(int_times_pow2(
                               mlx5_round_up_power_of_two(attr.max_wr),
                               wqe_size),
                           MLX5_SEND_WQE_BB)
    IN
    IF rwq_depth_refused(ctx, attr.max_wr) THEN [ret |-> -EINVAL, rq |-> NoWqSize]
    ELSE IF attr.mprq = "bad_mask" THEN [ret |-> -EINVAL, rq |-> NoWqSize]
    ELSE IF req_size <= 0 \/ req_size > ctx.max_rq_desc_sz
    THEN [ret |-> -EINVAL, rq |-> NoWqSize]
    ELSE [ret |-> wq_size, rq |-> rq_fields(wq_size, wqe_size, extra)]

\* the errno a sizing function's negative result becomes, lines 1682, 2733
errno_of(r) == IF r = -EINVAL THEN "EINVAL" ELSE "ENOMEM"

Idle(t) == pc[t] = "idle"

\* a verb is called: remember the call
Call(t, name, arg) ==
    /\ Idle(t)
    /\ op' = [op EXCEPT ![t] = [name |-> name, arg |-> arg]]

\* the verb returns r to the application
Finish(t, r) ==
    /\ pc' = [pc EXCEPT ![t] = "done"]
    /\ ret' = [ret EXCEPT ![t] = r]

\* the verb moves on to its next lock acquisition
Goto(t, label) ==
    /\ pc' = [pc EXCEPT ![t] = label]
    /\ UNCHANGED ret

\* objects another thread is working on are not handed to a second verb
TdInFlight(d) == \E u \in Threads : t_td[u] = d

FreeTdIds == {d \in TdIds : d \notin td_live /\ ~TdInFlight(d)}

\* ------------------------------------------------------------------- Init
InitTd ==
    /\ t_td = [t \in Threads |-> NULL]
    /\ t_idx = [t \in Threads |-> -1]
    /\ count_dyn_bfregs = [i \in Slots |-> 0]
    /\ bfs_uar = [g \in Groups |-> NULL]
    /\ bfs_reg = [i \in Slots |-> NULL]
    /\ next_page = 0
    /\ last_get = -1
    /\ dyn_bfregs_mutex = NULL
    /\ td_live = {}
    /\ td_bf = [d \in TdIds |-> -1]
    /\ td_refcount = [d \in TdIds |-> 0]

InitPd ==
    /\ pd_live = {}
    /\ pd_refcount = [p \in PdIds |-> 0]
    /\ par_live = {}
    /\ par_refcount = [p \in ParIds |-> 0]
    /\ par_pd = [p \in ParIds |-> NULL]
    /\ par_td = [p \in ParIds |-> NULL]

InitTh ==
    /\ pc = [t \in Threads |-> "idle"]
    /\ op = [t \in Threads |-> [name |-> "none", arg |-> NULL]]
    /\ ret = [t \in Threads |-> "none"]
    /\ trace = [t \in Threads |-> <<>>]

\* tagged references to the objects a table entry or a CQE can stand for
QpRef(q) == <<"qp", q>>
SrqRef(x) == <<"srq", x>>
WqRef(w) == <<"wq", w>>
\* an empty table entry
NoRef == <<"none", NULL>>

SrqIds == {1}
WqIds == {1}
UidxIds == 0..(MaxQp + 1)
Qpns == 1..(MaxQp + 1)

\* the doorbell record of a queue: MLX5_RCV_DBR and MLX5_SND_DBR
NoDbr == [rcv |-> 0, snd |-> 0]

NoQp == [qp_type |-> "none", dc_type |-> "none", rss_qp |-> FALSE,
         send_cq |-> NULL, recv_cq |-> NULL, srq |-> NULL, parent |-> NULL,
         rsn |-> 0, qp_num |-> 0, cmd_uidx |-> -1, state |-> "RESET", kstate |-> "RESET",
         has_wq |-> FALSE, db |-> FALSE, buf |-> FALSE,
         sq |-> NoWqSize, rq |-> NoWqSize, buf_size |-> 0,
         sq_buf_size |-> 0, max_inline_data |-> 0, dbr |-> NoDbr]

NoSrq == [srq_type |-> "none", cq |-> NULL, srqn |-> 0, rsn |-> 0,
          cmd_uidx |-> -1, rsc_type |-> "none", cmd_qp |-> NULL]

NoWq == [cq |-> NULL, rsn |-> 0, wq_num |-> 0, cmd_uidx |-> -1,
         state |-> "RESET", rq |-> NoWqSize, buf_size |-> 0, dbr |-> NoDbr]

\* a buffer pointer of struct mlx5_cq that points at neither buffer
NoBuf == "NULL"

NoCq == [active_buf |-> NoBuf, resize_buf |-> NoBuf, buf_a |-> FALSE,
         buf_b |-> FALSE, cqe |-> 0, dbrec |-> FALSE]

\* the struct mlx5_cq a successful create_cq leaves for cq_attr->cqe = cqe,
\* lines 609-703
created_cq(cqe) ==
    [active_buf |-> "buf_a", resize_buf |-> NoBuf, buf_a |-> TRUE,
     buf_b |-> FALSE, cqe |-> align_queue_size(cqe + 1) - 1, dbrec |-> TRUE]

\* every CQ of the context has been created with room for one entry
InitCqs ==
    /\ cq_live = CqIds
    /\ mcq = [c \in CqIds |-> created_cq(1)]

InitQpVars ==
    /\ cq_cqn = [c \in CqIds |-> c]
    /\ cq_lock = [c \in CqIds |-> NULL]
    /\ cq_cqes = [c \in CqIds |-> <<>>]
    /\ qp_live = {}
    /\ qps = [q \in QpIds |-> NoQp]
    /\ srq_live = {}
    /\ srqs = [x \in SrqIds |-> NoSrq]
    /\ wq_live = {}
    /\ wqs = [w \in WqIds |-> NoWq]
    /\ k_live = {}
    /\ uidx_table = [i \in UidxIds |-> NoRef]
    /\ qp_table = [n \in Qpns |-> NoRef]
    /\ srq_table = [n \in SrqIds |-> NoRef]
    /\ qp_table_mutex = NULL
    /\ srq_table_mutex = NULL
    /\ t_qp = [t \in Threads |-> NULL]
    /\ t_obj = [t \in Threads |-> NULL]

Init ==
    InitTh /\ InitTd /\ InitPd /\ cqe_version = 0 /\ InitCtx /\ InitCqs /\ InitQpVars

\* ------------------------------------------- mlx5_alloc_td / mlx5_dealloc_td

\* a scan that returns the slot without marking it in use
get_bfreg_index_counts_nomark(cnt) == cnt

\* mlx5_get_bfreg_index, lines 171-182, run under dyn_bfregs_mutex:
\* take the first slot whose counter is zero
get_bfreg_index_counts(cnt) ==
    IF FirstFreeSlot(cnt) >= 0
    THEN [cnt EXCEPT ![FirstFreeSlot(cnt)] = @ + 1]
    ELSE cnt

\* a release that leaves the counter as it is
put_bfreg_index_counts_keep(cnt, i) == cnt

\* mlx5_put_bfreg_index, line 163
put_bfreg_index_counts(cnt, i) == [cnt EXCEPT ![i] = @ - 1]

\* lines 279-282 of mlx5_alloc_td: the thread domain exists, one reference
td_created(t, i) ==
    /\ td_live' = td_live \cup {t_td[t]}
    /\ td_bf' = [td_bf EXCEPT ![t_td[t]] = i]
    /\ td_refcount' = [td_refcount EXCEPT ![t_td[t]] = 1]

\* mlx5_alloc_td, lines 262-271: argument validation and calloc
mlx5_alloc_td(t) ==
    /\ \E comp_mask \in {0, 1} :
         /\ Call(t, "mlx5_alloc_td", comp_mask)
         /\ \/ /\ comp_mask # 0
               /\ Finish(t, "EINVAL")
               /\ UNCHANGED t_td
            \/ /\ comp_mask = 0            \* calloc fails
               /\ Finish(t, "ENOMEM")
               /\ UNCHANGED t_td
            \/ /\ comp_mask = 0
               /\ FreeTdIds # {}
               /\ t_td' = [t_td EXCEPT ![t] = Min(FreeTdIds)]
               /\ Goto(t, "get_bfreg")
    /\ UNCHANGED <<trace, t_idx, count_dyn_bfregs, bfs_uar, bfs_reg, next_page,
                   last_get, dyn_bfregs_mutex, td_live, td_bf, td_refcount, pdvars, qpvars>>

\* mlx5_attach_dedicated_bf, lines 198-213: take a slot; ENOENT when there
\* is none; a slot whose register was set up earlier is returned at once
attach_get_bfreg(t) ==
    /\ pc[t] = "get_bfreg"
    /\ dyn_bfregs_mutex = NULL
    /\ LET i == FirstFreeSlot(count_dyn_bfregs) IN
       /\ count_dyn_bfregs' = get_bfreg_index_counts(count_dyn_bfregs)
       /\ last_get' = IF i < 0 THEN last_get ELSE i
       /\ IF i < 0
          THEN /\ Finish(t, "ENOENT")
               /\ UNCHANGED <<t_idx, td_live, td_bf, td_refcount, trace>>
          ELSE IF bfs_reg[i] # NULL
          THEN /\ td_created(t, i)
               /\ Finish(t, "OK")
               /\ t_idx' = [t_idx EXCEPT ![t] = i]
               /\ trace' = [trace EXCEPT ![t] = Append(@, "ready")]
          ELSE /\ t_idx' = [t_idx EXCEPT ![t] = i]
               /\ Goto(t, "lock_uar")
               /\ UNCHANGED <<td_live, td_bf, td_refcount, trace>>
    /\ UNCHANGED <<op, t_td, bfs_uar, bfs_reg, next_page,
                   dyn_bfregs_mutex, pdvars, qpvars>>

\* line 215: pthread_mutex_lock(&ctx->dyn_bfregs_mutex)
attach_lock_uar(t) ==
    /\ pc[t] = "lock_uar"
    /\ dyn_bfregs_mutex = NULL
    /\ dyn_bfregs_mutex' = t
    /\ Goto(t, "map_uar")
    /\ UNCHANGED <<op, trace, t_td, t_idx, count_dyn_bfregs, bfs_uar,
                   bfs_reg, next_page, last_get, td_live, td_bf, td_refcount,
                   pdvars, qpvars>>

\* a test that never finds the page of a group mapped
uar_mapped_never(g) == FALSE

\* the test of line 216: the page of group g has been mapped
uar_mapped(g) == bfs_uar[g] # NULL

\* lines 216-227, with the mutex held: the page of the slot's group is mapped
\* unless it already is; mlx5_mmap may fail
attach_map_uar(t) ==
    /\ pc[t] = "map_uar"
    /\ LET g == uar_page_index(t_idx[t]) IN
       \/ /\ uar_mapped(g)                    \* goto set_reg
          /\ Goto(t, "set_reg")
          /\ UNCHANGED <<bfs_uar, next_page, dyn_bfregs_mutex, trace>>
       \/ /\ ~uar_mapped(g)                   \* mlx5_mmap succeeds
          /\ next_page' = next_page + 1
          /\ bfs_uar' = [bfs_uar EXCEPT ![g] = mmap_addr(next_page + 1)]
          /\ trace' = [trace EXCEPT ![t] = Append(@, "mmap")]
          /\ Goto(t, "set_reg")
          /\ UNCHANGED dyn_bfregs_mutex
       \/ /\ ~uar_mapped(g)                   \* MAP_FAILED
          /\ bfs_uar' = [bfs_uar EXCEPT ![g] = NULL]
          /\ trace' = [trace EXCEPT ![t] = Append(@, "mmap_failed")]
          /\ dyn_bfregs_mutex' = NULL
          /\ Goto(t, "out")
          /\ UNCHANGED next_page
    /\ UNCHANGED <<op, t_td, t_idx, count_dyn_bfregs, bfs_reg, last_get,
                   td_live, td_bf, td_refcount, pdvars, qpvars>>

\* lines 229-245 and 279-282: unlock, fill in the bf entry, return it
attach_set_reg(t) ==
    /\ pc[t] = "set_reg"
    /\ dyn_bfregs_mutex' = NULL
    /\ bfs_reg' = [bfs_reg EXCEPT ![t_idx[t]] =
                     bf_reg_addr(bfs_uar[uar_page_index(t_idx[t])], t_idx[t])]
    /\ td_created(t, t_idx[t])
    /\ Finish(t, "OK")
    /\ UNCHANGED <<op, trace, t_td, t_idx, count_dyn_bfregs, bfs_uar,
                   next_page, last_get, pdvars, qpvars>>

\* lines 246-248 and 274-277: give the slot back, free the td, return NULL
attach_out(t) ==
    /\ pc[t] = "out"
    /\ dyn_bfregs_mutex = NULL
    /\ count_dyn_bfregs' = put_bfreg_index_counts(count_dyn_bfregs, t_idx[t])
    /\ Finish(t, "MAP_FAILED")
    /\ UNCHANGED <<op, trace, t_td, t_idx, bfs_uar, bfs_reg, next_page,
                   last_get,
                   dyn_bfregs_mutex, td_live, td_bf, td_refcount, pdvars, qpvars>>

\* a busy test that tolerates one extra reference
td_busy_late(d) == td_refcount[d] > 2

\* the test of line 290
td_busy(d) == td_refcount[d] > 1

\* mlx5_dealloc_td, lines 289-291
mlx5_dealloc_td(t) ==
    /\ \E d \in td_live :
         /\ ~TdInFlight(d)
         /\ Call(t, "mlx5_dealloc_td", d)
         /\ IF td_busy(d)
            THEN /\ Finish(t, "EBUSY")
                 /\ UNCHANGED t_td
            ELSE /\ t_td' = [t_td EXCEPT ![t] = d]
                 /\ Goto(t, "put_bfreg")
    /\ UNCHANGED <<trace, t_idx, count_dyn_bfregs, bfs_uar, bfs_reg, next_page,
                   last_get, dyn_bfregs_mutex, td_live, td_bf, td_refcount, pdvars, qpvars>>

\* mlx5_dealloc_td, lines 293-296: mlx5_detach_dedicated_bf, free(td)
dealloc_td_put(t) ==
    /\ pc[t] = "put_bfreg"
    /\ dyn_bfregs_mutex = NULL
    /\ count_dyn_bfregs' =
           put_bfreg_index_counts(count_dyn_bfregs, td_bf[t_td[t]])
    /\ td_live' = td_live \ {t_td[t]}
    /\ td_refcount' = [td_refcount EXCEPT ![t_td[t]] = 0]
    /\ td_bf' = [td_bf EXCEPT ![t_td[t]] = -1]
    /\ Finish(t, "OK")
    /\ UNCHANGED <<op, trace, t_td, t_idx, bfs_uar, bfs_reg, next_page,
                   last_get, dyn_bfregs_mutex, pdvars, qpvars>>

\* the verb's result has been taken by the application
Return(t) ==
    /\ pc[t] = "done"
    /\ pc' = [pc EXCEPT ![t] = "idle"]
    /\ op' = [op EXCEPT ![t] = [name |-> "none", arg |-> NULL]]
    /\ ret' = [ret EXCEPT ![t] = "none"]
    /\ trace' = [trace EXCEPT ![t] = <<>>]
    /\ t_td' = [t_td EXCEPT ![t] = NULL]
    /\ t_idx' = [t_idx EXCEPT ![t] = -1]
    /\ t_qp' = [t_qp EXCEPT ![t] = NULL]
    /\ t_obj' = [t_obj EXCEPT ![t] = NULL]
    /\ UNCHANGED <<count_dyn_bfregs, bfs_uar, bfs_reg, next_page,
                   last_get, dyn_bfregs_mutex, td_live, td_bf, td_refcount, pdvars,
                   ctxvars, cqobjs, cqvars, objvars, tblvars>>

\* ------------------------------------- protection domains, parent domains

\* mlx5_alloc_pd, lines 144-157
mlx5_alloc_pd(t) ==
    /\ Call(t, "mlx5_alloc_pd", NULL)
    /\ \/ /\ Finish(t, "NULL")                          \* calloc fails
          /\ UNCHANGED <<trace, pd_live, pd_refcount>>
       \/ /\ Finish(t, "NULL")                          \* the command fails
          /\ trace' = [trace EXCEPT ![t] = <<"cmd_alloc_pd">>]
          /\ UNCHANGED <<pd_live, pd_refcount>>
       \/ /\ PdIds \ pd_live # {}
          /\ LET p == Min(PdIds \ pd_live) IN
             /\ pd_live' = pd_live \cup {p}
             /\ pd_refcount' = [pd_refcount EXCEPT ![p] = 1]
          /\ Finish(t, "OK")
          /\ trace' = [trace EXCEPT ![t] = <<"cmd_alloc_pd">>]
    /\ UNCHANGED <<tdvars, par_live, par_refcount, par_pd, par_td, qpvars>>

\* mlx5_alloc_parent_domain, lines 305-332; attr->td may be NULL
mlx5_alloc_parent_domain(t) ==
    /\ \E p \in pd_live, d \in {NULL} \cup {x \in td_live : ~TdInFlight(x)},
          comp_mask \in {0, 1} :
         /\ Call(t, "mlx5_alloc_parent_domain", <<p, d, comp_mask>>)
         /\ \/ /\ comp_mask # 0
               /\ Finish(t, "EINVAL")
               /\ UNCHANGED <<pd_refcount, td_refcount, par_live,
                              par_refcount, par_pd, par_td>>
            \/ /\ comp_mask = 0                        \* calloc fails
               /\ Finish(t, "ENOMEM")
               /\ UNCHANGED <<pd_refcount, td_refcount, par_live,
                              par_refcount, par_pd, par_td>>
            \/ /\ comp_mask = 0
               /\ ParIds \ par_live # {}
               /\ LET m == Min(ParIds \ par_live) IN
                  /\ par_live' = par_live \cup {m}
                  /\ par_td' = [par_td EXCEPT ![m] = d]
                  /\ par_pd' = [par_pd EXCEPT ![m] = p]
                  /\ par_refcount' = [par_refcount EXCEPT ![m] = 1]
               /\ td_refcount' = IF d # NULL
                                 THEN [td_refcount EXCEPT ![d] = @ + 1]
                                 ELSE td_refcount
               /\ pd_refcount' = [pd_refcount EXCEPT ![p] = @ + 1]
               /\ Finish(t, "OK")
    /\ UNCHANGED <<trace, t_td, t_idx, count_dyn_bfregs, bfs_uar, bfs_reg,
                   next_page, last_get, dyn_bfregs_mutex, td_live, td_bf, pd_live,
                   qpvars>>

\* the test of line 337
parent_busy(m) == par_refcount[m] > 1

\* a busy test that tolerates one extra reference
pd_busy_late(p) == pd_refcount[p] > 2

\* the test of line 358
pd_busy(p) == pd_refcount[p] > 1

\* a deallocation that leaves the thread domain's reference in place
mlx5_dealloc_parent_domain_keep_td(t, m) ==
    IF parent_busy(m)
    THEN /\ Finish(t, "EBUSY")
         /\ UNCHANGED <<pd_refcount, td_refcount, par_live, par_refcount,
                        par_pd, par_td>>
    ELSE /\ pd_refcount' = [pd_refcount EXCEPT ![par_pd[m]] = @ - 1]
         /\ par_live' = par_live \ {m}
         /\ par_refcount' = [par_refcount EXCEPT ![m] = 0]
         /\ par_pd' = [par_pd EXCEPT ![m] = NULL]
         /\ par_td' = [par_td EXCEPT ![m] = NULL]
         /\ Finish(t, "OK")
         /\ UNCHANGED td_refcount

\* mlx5_dealloc_parent_domain, lines 337-346
mlx5_dealloc_parent_domain(t, m) ==
    IF parent_busy(m)
    THEN /\ Finish(t, "EBUSY")
         /\ UNCHANGED <<pd_refcount, td_refcount, par_live, par_refcount,
                        par_pd, par_td>>
    ELSE /\ pd_refcount' = [pd_refcount EXCEPT ![par_pd[m]] = @ - 1]
         /\ td_refcount' = IF par_td[m] # NULL
                           THEN [td_refcount EXCEPT ![par_td[m]] = @ - 1]
                           ELSE td_refcount
         /\ par_live' = par_live \ {m}
         /\ par_refcount' = [par_refcount EXCEPT ![m] = 0]
         /\ par_pd' = [par_pd EXCEPT ![m] = NULL]
         /\ par_td' = [par_td EXCEPT ![m] = NULL]
         /\ Finish(t, "OK")

\* mlx5_free_pd on a parent domain, lines 352-356
mlx5_free_pd_parent(t) ==
    /\ \E m \in par_live :
         /\ Call(t, "mlx5_free_pd", <<"parent", m>>)
         /\ mlx5_dealloc_parent_domain(t, m)
    /\ UNCHANGED <<trace, t_td, t_idx, count_dyn_bfregs, bfs_uar, bfs_reg,
                   next_page, last_get, dyn_bfregs_mutex, td_live, td_bf, pd_live,
                   qpvars>>

\* mlx5_free_pd on a protection domain, lines 358-366
mlx5_free_pd(t) ==
    /\ \E p \in pd_live :
         /\ Call(t, "mlx5_free_pd", <<"pd", p>>)
         /\ IF pd_busy(p)
            THEN /\ Finish(t, "EBUSY")
                 /\ UNCHANGED <<trace, pd_live, pd_refcount>>
            ELSE \/ /\ Finish(t, "EKERNEL")
                    /\ trace' = [trace EXCEPT ![t] = <<"cmd_dealloc_pd">>]
                    /\ UNCHANGED <<pd_live, pd_refcount>>
                 \/ /\ Finish(t, "OK")
                    /\ trace' = [trace EXCEPT ![t] =
                                   <<"cmd_dealloc_pd", "free_pd">>]
                    /\ pd_live' = pd_live \ {p}
                    /\ pd_refcount' = [pd_refcount EXCEPT ![p] = 0]
    /\ UNCHANGED <<tdvars, par_live, par_refcount, par_pd, par_td, qpvars>>

\* ------------------------------------------------------ completion queues

Max(S) == CHOOSE x \in S : \A y \in S : x >= y

RECURSIVE SumLen(_, _)
SumLen(f, S) ==
    IF S = {} THEN 0
    ELSE LET c == Min(S) IN Len(f[c]) + SumLen(f, S \ {c})

\* completions waiting in all CQs together
TotalCqes == SumLen(cq_cqes, CqIds)

Count(seq, e) == Cardinality({i \in DOMAIN seq : seq[i] = e})

\* position of the first occurrence of e in seq, 0 when there is none
IndexOf(seq, e) ==
    IF \E i \in DOMAIN seq : seq[i] = e
    THEN Min({i \in DOMAIN seq : seq[i] = e})
    ELSE 0

QpInFlight(q) == \E u \in Threads : t_qp[u] = q
ObjInFlight(x) == \E u \in Threads : t_obj[u] = x

\* the owning-resource field the cleanup scan compares: the user index
\* when the context uses cqe_version 1, the QP number otherwise
cqe_rsn(cqe) == IF cqe_version = 0 THEN cqe.qpn ELSE cqe.srqn_uidx

\* the compaction of section 4.6: entries whose owning-resource field is
\* rsn are dropped, the others keep their order
cq_clean(cqes, rsn) == SelectSeq(cqes, LAMBDA e : cqe_rsn(e) # rsn)

\* __mlx5_cq_clean(cq, rsn, srq) on the CQs' contents; nothing to scan
\* when there is no CQ; srq only selects SRQ slots to recycle
mlx5_cq_clean(cqs, c, rsn, srq) ==
    IF c = NULL THEN cqs ELSE [cqs EXCEPT ![c] = cq_clean(@, rsn)]

\* the completion the device writes for a kernel-live object
hw_cqe(ref) ==
    IF ref[1] = "qp"
    THEN [qpn |-> qps[ref[2]].qp_num,
          srqn_uidx |-> IF cqe_version = 0 THEN 0 ELSE qps[ref[2]].cmd_uidx,
          owner |-> ref]
    ELSE IF ref[1] = "srq"
    THEN [qpn |-> 0,
          srqn_uidx |-> IF cqe_version = 0 THEN srqs[ref[2]].srqn
                        ELSE srqs[ref[2]].cmd_uidx,
          owner |-> ref]
    ELSE [qpn |-> 0, srqn_uidx |-> wqs[ref[2]].cmd_uidx, owner |-> ref]

\* the CQs an object's completions are delivered to
hw_cqs(ref) ==
    IF ref[1] = "qp"
    THEN IF qps[ref[2]].rss_qp \/ qps[ref[2]].dc_type = "DCT" THEN {}
         ELSE {qps[ref[2]].send_cq, qps[ref[2]].recv_cq} \ {NULL}
    ELSE IF ref[1] = "srq" THEN {srqs[ref[2]].cq} \ {NULL}
    ELSE {wqs[ref[2]].cq} \ {NULL}

\* the device completes a work request of an object the kernel still holds
HwComplete ==
    /\ TotalCqes < MaxCqe
    /\ \E ref \in k_live : \E c \in hw_cqs(ref) :
         cq_cqes' = [cq_cqes EXCEPT ![c] = Append(@, hw_cqe(ref))]
    /\ UNCHANGED <<thvars, tdvars, pdvars, ctxvars, cqobjs, cq_cqn, cq_lock,
                   objvars, tblvars, t_qp, t_obj>>

\* ------------------------------------------------- resource index tables

\* mlx5_store_uidx: the first free user index, -1 when the table is full
free_uidx(tbl) ==
    IF \E i \in UidxIds : tbl[i] = NoRef
    THEN Min({i \in UidxIds : tbl[i] = NoRef})
    ELSE -1

mlx5_store_uidx(tbl, ref) == [tbl EXCEPT ![free_uidx(tbl)] = ref]

mlx5_clear_uidx(tbl, i) == [tbl EXCEPT ![i] = NoRef]

mlx5_store_qp(tbl, qpn, ref) == [tbl EXCEPT ![qpn] = ref]

mlx5_clear_qp(tbl, qpn) == [tbl EXCEPT ![qpn] = NoRef]

mlx5_store_srq(tbl, srqn, ref) == [tbl EXCEPT ![srqn] = ref]

mlx5_clear_srq(tbl, srqn) == [tbl EXCEPT ![srqn] = NoRef]

\* the QP number the kernel assigns: one no kernel-live QP carries
free_qpn ==
    Min({n \in Qpns : \A q \in qp_live : QpRef(q) \in k_live => qps[q].qp_num # n})

is_xrc_tgt(qp_type) == qp_type = "XRC_RECV"

\* ------------------------------------------------------- mlx5_destroy_qp

\* a locking order that takes the send CQ first whatever the CQ numbers
mlx5_lock_cqs_sendfirst(s, r) ==
    IF s # NULL /\ r # NULL
    THEN IF s = r THEN <<s>> ELSE <<s, r>>
    ELSE IF s # NULL THEN <<s>>
    ELSE IF r # NULL THEN <<r>>
    ELSE <<>>

\* mlx5_lock_cqs, lines 1849-1863: the CQ locks in the order they are taken
mlx5_lock_cqs(s, r) ==
    IF s # NULL /\ r # NULL
    THEN IF s = r THEN <<s>>
         ELSE IF cq_cqn[s] < cq_cqn[r] THEN <<s, r>>
         ELSE <<r, s>>
    ELSE IF s # NULL THEN <<s>>
    ELSE IF r # NULL THEN <<r>>
    ELSE <<>>

\* an unlock that releases a shared CQ once per role
mlx5_unlock_cqs_perrole(s, r) ==
    IF s # NULL /\ r # NULL
    THEN IF cq_cqn[s] < cq_cqn[r] THEN <<r, s>> ELSE <<s, r>>
    ELSE IF s # NULL THEN <<s>>
    ELSE IF r # NULL THEN <<r>>
    ELSE <<>>

\* mlx5_unlock_cqs, lines 1871-1885: the CQ locks in the order they are
\* released
mlx5_unlock_cqs(s, r) ==
    IF s # NULL /\ r # NULL
    THEN IF s = r THEN <<s>>
         ELSE IF cq_cqn[s] < cq_cqn[r] THEN <<r, s>>
         ELSE <<s, r>>
    ELSE IF s # NULL THEN <<s>>
    ELSE IF r # NULL THEN <<r>>
    ELSE <<>>

\* a scan keyed by the QP number whatever the cqe_version
scavenge_rsn_qpn(qp) == qp.qp_num

\* the resource number handed to __mlx5_cq_clean, lines 1914 and 1917
scavenge_rsn(qp) == qp.rsn

Elems(seq) == {seq[i] : i \in DOMAIN seq}

Events(name, seq) == [i \in DOMAIN seq |-> <<name, seq[i]>>]

\* lines 1943-1946 (free:), for the QP q as it is in the current state:
\* the parent domain's reference is dropped and the QP freed.  A parent
\* domain freed in the meantime is written to all the same.
qp_free_parent(q) ==
    IF qps[q].parent # NULL
    THEN [par_refcount EXCEPT ![qps[q].parent] = @ - 1]
    ELSE par_refcount

\* a destroy inside mlx5_destroy_srq that leaves msrq->cmd_qp as it was
qp_destroyed_keep_cmd_qp(t, x) ==
    IF x # NULL
    THEN Goto(t, "srq_cmd") /\ UNCHANGED srqs
    ELSE Finish(t, "OK") /\ UNCHANGED srqs

\* the destroy of QP q has ended with success; inside mlx5_destroy_srq
\* (x # NULL) the SRQ goes on with its own kernel command
qp_destroyed(t, x) ==
    IF x # NULL
    THEN /\ Goto(t, "srq_cmd")
         /\ srqs' = [srqs EXCEPT ![x].cmd_qp = NULL]
    ELSE /\ Finish(t, "OK")
         /\ UNCHANGED srqs

\* the error codes ibv_cmd_destroy_qp can come back with
KernelErrnos == {"EBUSY", "EIO"}

\* a return that reports every failure of the kernel command as EIO
destroy_qp_ret_eio(e) == "EIO"

\* lines 1897-1898 and 1906-1910: return ret
destroy_qp_ret(e) == e

\* mlx5_destroy_qp, lines 1895-1910, called for QP q by thread t, from
\* mlx5_destroy_srq when x # NULL
destroy_qp_begin(t, q, x) ==
    /\ t_qp' = [t_qp EXCEPT ![t] = q]
    /\ IF qps[q].rss_qp
       THEN \/ /\ \E e \in KernelErrnos :
                    /\ Finish(t, destroy_qp_ret(e))
                    /\ trace' = [trace EXCEPT ![t] =
                                   <<<<"cmd_destroy_qp", q>>,
                                     <<"cmd_failed", e>>>>]
               /\ UNCHANGED <<k_live, qp_live, qps, srqs, par_refcount,
                              qp_table_mutex, srq_table_mutex>>
            \/ /\ k_live' = k_live \ {QpRef(q)}
               /\ trace' = [trace EXCEPT ![t] =
                              <<<<"cmd_destroy_qp", q>>, <<"free", q>>>>]
               /\ par_refcount' = qp_free_parent(q)
               /\ qp_live' = qp_live \ {q}
               /\ qps' = [qps EXCEPT ![q] = NoQp]
               /\ qp_destroyed(t, x)
               /\ UNCHANGED <<qp_table_mutex, srq_table_mutex>>
       ELSE /\ cqe_version = 0 => qp_table_mutex = NULL
            /\ \/ /\ \E e \in KernelErrnos :
                       /\ Finish(t, destroy_qp_ret(e))
                       /\ trace' = [trace EXCEPT ![t] =
                                      <<<<"cmd_destroy_qp", q>>,
                                        <<"cmd_failed", e>>>>]
                  /\ UNCHANGED <<k_live, qp_table_mutex, srq_table_mutex>>
               \/ /\ k_live' = k_live \ {QpRef(q)}
                  /\ trace' = [trace EXCEPT ![t] =
                                 <<<<"cmd_destroy_qp", q>>>>]
                  /\ qp_table_mutex' =
                        IF cqe_version = 0 THEN t ELSE qp_table_mutex
                  /\ UNCHANGED srq_table_mutex
                  /\ Goto(t, "lock_cqs")
            /\ UNCHANGED <<qp_live, qps, srqs, par_refcount>>

\* application code does not hand a QP to two verbs at once, and leaves
\* the command QP of a tag-matching SRQ to the SRQ; runs end where a
\* reference count has fallen MaxUnderflow below zero
QpCallable(q) ==
    /\ q \in qp_live
    /\ ~QpInFlight(q)
    /\ \A x \in srq_live : srqs[x].cmd_qp # q
    /\ qps[q].parent # NULL => par_refcount[qps[q].parent] > -MaxUnderflow

mlx5_destroy_qp(t) ==
    /\ \E q \in QpIds :
         /\ QpCallable(q)
         /\ Call(t, "mlx5_destroy_qp", q)
         /\ destroy_qp_begin(t, q, NULL)
    /\ UNCHANGED <<tdvars, pd_live, pd_refcount, par_live, par_pd, par_td,
                   ctxvars, cqobjs, cqvars, srq_live, wq_live, wqs, uidx_table,
                   qp_table, srq_table, t_obj>>

\* mlx5_lock_cqs as called at line 1912: the first spin lock
destroy_qp_lock_cqs(t) ==
    /\ pc[t] = "lock_cqs"
    /\ LET locks == mlx5_lock_cqs(qps[t_qp[t]].send_cq, qps[t_qp[t]].recv_cq) IN
       IF locks = <<>>
       THEN /\ Goto(t, "clean")
            /\ UNCHANGED <<cq_lock, trace>>
       ELSE /\ cq_lock[locks[1]] = NULL
            /\ cq_lock' = [cq_lock EXCEPT ![locks[1]] = t]
            /\ trace' = [trace EXCEPT ![t] = Append(@, <<"lock", locks[1]>>)]
            /\ Goto(t, IF Len(locks) > 1 THEN "lock_second" ELSE "clean")
    /\ UNCHANGED <<op, tdvars, pdvars, ctxvars, cqobjs, cq_cqn, cq_cqes, objvars,
                   tblvars, t_qp, t_obj>>

\* a second step that goes on without taking the second spin lock
destroy_qp_lock_second_skip(t) ==
    /\ pc[t] = "lock_second"
    /\ Goto(t, "clean")
    /\ UNCHANGED <<op, trace, tdvars, pdvars, ctxvars, cqobjs, cqvars, objvars,
                   tblvars, t_qp, t_obj>>

\* mlx5_lock_cqs: the second spin lock, lines 1854 and 1857
destroy_qp_lock_second(t) ==
    /\ pc[t] = "lock_second"
    /\ LET locks == mlx5_lock_cqs(qps[t_qp[t]].send_cq, qps[t_qp[t]].recv_cq) IN
       /\ cq_lock[locks[2]] = NULL
       /\ cq_lock' = [cq_lock EXCEPT ![locks[2]] = t]
       /\ trace' = [trace EXCEPT ![t] = Append(@, <<"lock", locks[2]>>)]
       /\ Goto(t, "clean")
    /\ UNCHANGED <<op, tdvars, pdvars, ctxvars, cqobjs, cq_cqn, cq_cqes, objvars,
                   tblvars, t_qp, t_obj>>

\* the completions left after lines 1914-1917
destroy_qp_scavenge(qp) ==
    LET first == mlx5_cq_clean(cq_cqes, qp.recv_cq, scavenge_rsn(qp), qp.srq) IN
    IF qp.send_cq # qp.recv_cq
    THEN mlx5_cq_clean(first, qp.send_cq, scavenge_rsn(qp), NULL)
    ELSE first

\* entries a scan for rsn drops from CQ c
nfreed(cqs, c, rsn) ==
    IF c = NULL THEN 0 ELSE Len(cqs[c]) - Len(cq_clean(cqs[c], rsn))

\* the calls of __mlx5_cq_clean made at lines 1914-1917, each with the
\* number of entries it dropped
destroy_qp_scavenge_events(qp) ==
    <<<<"clean", qp.recv_cq>>,
      <<"nfreed", nfreed(cq_cqes, qp.recv_cq, scavenge_rsn(qp))>>>> \o
    (IF qp.send_cq # qp.recv_cq
     THEN <<<<"clean", qp.send_cq>>,
            <<"nfreed", nfreed(cq_cqes, qp.send_cq, scavenge_rsn(qp))>>>>
     ELSE <<>>)

\* a destroy that drops the legacy table entry of every QP
destroy_qp_clear_qp_always(qp) == cqe_version = 0

\* lines 1919-1930: the legacy table entry is dropped where one was made
destroy_qp_clear_qp(qp) ==
    cqe_version = 0 /\ IF qp.dc_type = "DCT" THEN qp.state = "RTR" ELSE qp.has_wq

\* a release that frees the queue buffers before the doorbell record
destroy_qp_release_events_buf_first(q, qp) ==
    (IF qp.dc_type # "DCT"
     THEN <<<<"free_buf", q>>, <<"free_db", q>>>> ELSE <<>>)
    \o <<<<"free", q>>>>

\* lines 1938-1946: mlx5_free_db, then mlx5_free_qp_buf, then free(qp)
destroy_qp_release_events(q, qp) ==
    (IF qp.dc_type # "DCT"
     THEN <<<<"free_db", q>>, <<"free_buf", q>>>> ELSE <<>>)
    \o <<<<"free", q>>>>

\* lines 1914-1949: scavenge, drop the table entry, unlock, release
destroy_qp_clean(t) ==
    /\ pc[t] = "clean"
    /\ LET q == t_qp[t]
           qp == qps[q]
           unlocks == mlx5_unlock_cqs(qp.send_cq, qp.recv_cq)
           uidx == cqe_version # 0 /\ ~is_xrc_tgt(qp.qp_type)
       IN
       /\ cq_cqes' = destroy_qp_scavenge(qp)
       /\ qp_table' = IF destroy_qp_clear_qp(qp)
                      THEN mlx5_clear_qp(qp_table, qp.qp_num)
                      ELSE qp_table
       /\ cq_lock' = [c \in CqIds |->
                        IF c \in Elems(unlocks) THEN NULL ELSE cq_lock[c]]
       /\ qp_table_mutex' = IF cqe_version = 0 THEN NULL ELSE qp_table_mutex
       /\ UNCHANGED srq_table_mutex
       /\ uidx_table' = IF uidx THEN mlx5_clear_uidx(uidx_table, qp.rsn)
                        ELSE uidx_table
       /\ trace' = [trace EXCEPT ![t] =
             @ \o destroy_qp_scavenge_events(qp)
               \o (IF destroy_qp_clear_qp(qp)
                   THEN <<<<"clear_qp", qp.qp_num>>>> ELSE <<>>)
               \o Events("unlock", unlocks)
               \o (IF uidx THEN <<<<"clear_uidx", qp.rsn>>>> ELSE <<>>)
               \o destroy_qp_release_events(q, qp)]
       /\ par_refcount' = qp_free_parent(q)
       /\ qp_live' = qp_live \ {q}
       /\ qps' = [qps EXCEPT ![q] = NoQp]
       /\ qp_destroyed(t, t_obj[t])
    /\ UNCHANGED <<op, tdvars, pd_live, pd_refcount, par_live, par_pd, par_td,
                   ctxvars, cqobjs, cq_cqn, srq_live, wq_live, wqs, k_live,
                   srq_table, t_qp, t_obj>>

\* ------------------------------------- mlx5_destroy_srq, mlx5_destroy_wq

SrqCallable(x) == x \in srq_live /\ ~ObjInFlight(x)

\* mlx5_destroy_srq, lines 975-980: a command QP is destroyed first
mlx5_destroy_srq(t) ==
    /\ \E x \in SrqIds :
         /\ SrqCallable(x)
         /\ Call(t, "mlx5_destroy_srq", x)
         /\ t_obj' = [t_obj EXCEPT ![t] = x]
         /\ IF srqs[x].cmd_qp # NULL
            THEN destroy_qp_begin(t, srqs[x].cmd_qp, x)
            ELSE /\ Goto(t, "srq_cmd")
                 /\ UNCHANGED <<trace, k_live, qp_live, qps, srqs,
                                par_refcount, qp_table_mutex,
                                srq_table_mutex, t_qp>>
    /\ UNCHANGED <<tdvars, pd_live, pd_refcount, par_live, par_pd, par_td,
                   ctxvars, cqobjs, cqvars, srq_live, wq_live, wqs, uidx_table,
                   qp_table, srq_table>>

\* mlx5_destroy_srq, lines 982-998: the kernel command, the table entry,
\* the buffers
destroy_srq_cmd(t) ==
    /\ pc[t] = "srq_cmd"
    /\ LET x == t_obj[t]
           srq == srqs[x]
           uidx == cqe_version # 0 /\ srq.rsc_type = "XSRQ"
       IN
       \/ /\ Finish(t, "EKERNEL")
          /\ trace' = [trace EXCEPT ![t] = Append(@, <<"cmd_destroy_srq", x>>)]
          /\ UNCHANGED <<srq_live, srqs, k_live, uidx_table, srq_table>>
       \/ /\ k_live' = k_live \ {SrqRef(x)}
          /\ uidx_table' = IF uidx THEN mlx5_clear_uidx(uidx_table, srq.rsn)
                           ELSE uidx_table
          /\ srq_table' = IF uidx THEN srq_table
                          ELSE mlx5_clear_srq(srq_table, srq.srqn)
          /\ trace' = [trace EXCEPT ![t] =
                @ \o <<<<"cmd_destroy_srq", x>>,
                       IF uidx THEN <<"clear_uidx", srq.rsn>>
                       ELSE <<"clear_srq", srq.srqn>>,
                       <<"free_db", x>>, <<"free_buf", x>>, <<"free", x>>>>]
          /\ srq_live' = srq_live \ {x}
          /\ srqs' = [srqs EXCEPT ![x] = NoSrq]
          /\ Finish(t, "OK")
    /\ UNCHANGED <<op, tdvars, pdvars, ctxvars, cqobjs, cqvars, qp_live, qps,
                   wq_live, wqs, qp_table, qp_table_mutex, srq_table_mutex,
                   t_qp, t_obj>>

WqCallable(w) == w \in wq_live /\ ~ObjInFlight(w)

\* mlx5_destroy_wq, lines 2862-2864: the kernel command
mlx5_destroy_wq(t) ==
    /\ \E w \in WqIds :
         /\ WqCallable(w)
         /\ Call(t, "mlx5_destroy_wq", w)
         /\ trace' = [trace EXCEPT ![t] = <<<<"cmd_destroy_wq", w>>>>]
         /\ \/ /\ Finish(t, "EKERNEL")
               /\ UNCHANGED <<k_live, t_obj>>
            \/ /\ k_live' = k_live \ {WqRef(w)}
               /\ t_obj' = [t_obj EXCEPT ![t] = w]
               /\ Goto(t, "wq_lock")
    /\ UNCHANGED <<tdvars, pdvars, ctxvars, cqobjs, cqvars, qp_live, qps, srq_live,
                   srqs, wq_live, wqs, tblvars, t_qp>>

\* mlx5_destroy_wq, lines 2866-2872: scavenge under the CQ lock, drop the
\* user index, release
destroy_wq_clean(t) ==
    /\ pc[t] = "wq_lock"
    /\ LET w == t_obj[t]
           wq == wqs[w]
       IN
       /\ cq_lock[wq.cq] = NULL
       /\ cq_cqes' = mlx5_cq_clean(cq_cqes, wq.cq, wq.rsn, NULL)
       /\ uidx_table' = mlx5_clear_uidx(uidx_table, wq.rsn)
       /\ trace' = [trace EXCEPT ![t] =
             @ \o <<<<"lock", wq.cq>>, <<"clean", wq.cq>>,
                    <<"nfreed", nfreed(cq_cqes, wq.cq, wq.rsn)>>,
                    <<"unlock", wq.cq>>,
                    <<"clear_uidx", wq.rsn>>, <<"free_db", w>>,
                    <<"free_buf", w>>, <<"free", w>>>>]
       /\ wq_live' = wq_live \ {w}
       /\ wqs' = [wqs EXCEPT ![w] = NoWq]
       /\ Finish(t, "OK")
    /\ UNCHANGED <<op, tdvars, pdvars, ctxvars, cqobjs, cq_cqn, cq_lock, qp_live,
                   qps, srq_live, srqs, k_live, qp_table, srq_table,
                   qp_table_mutex, srq_table_mutex, t_qp, t_obj>>

\* ------------------------------------------- objects as their verbs make them

\* a resource number that is the QP number whatever the indexing mode
qp_rsn_qp_num(qp_type, usr_idx, qp_num) == qp_num

\* create_qp, lines 1798-1800
qp_rsn(qp_type, usr_idx, qp_num) ==
    IF cqe_version # 0 /\ ~is_xrc_tgt(qp_type) THEN usr_idx ELSE qp_num

\* the request of a queue of one descriptor with one scatter entry
DefaultCap ==
    [max_send_wr |-> 1, max_send_sge |-> 1, max_inline_data |-> 0,
     max_recv_wr |-> 1, max_recv_sge |-> 1]

\* the request of no queue at all, as made for an XRC receive target
NoCap ==
    [max_send_wr |-> 0, max_send_sge |-> 0, max_inline_data |-> 0,
     max_recv_wr |-> 0, max_recv_sge |-> 0]

\* the part of struct ibv_qp_init_attr_ex the sizing functions read
sizing_attr(qp_type, dc_type, cap, srq) ==
    [qp_type |-> qp_type, dc_type |-> dc_type, underlay |-> FALSE,
     max_tso_header |-> -1, cap |-> cap, srq |-> srq]

\* the sizes of a QP asked for with DefaultCap, signatures off
default_sizes(qp_type, dc_type) ==
    mlx5_calc_wq_size(mctx, sizing_attr(qp_type, dc_type, DefaultCap, NULL),
                      FALSE)

\* a layout that puts both queues of every QP into the one buffer
create_qp_layout_one_buffer(two, sz) ==
    [sq |-> sz.sq, buf_size |-> sz.ret, sq_buf_size |-> 0]

\* create_qp, lines 1686-1694: the buffer sizes and the place of the send
\* queue, for the sizes sz mlx5_calc_wq_size returned and wrote; two is
\* qp_type == IBV_QPT_RAW_PACKET || flags & MLX5_QP_FLAGS_USE_UNDERLAY
create_qp_layout(two, sz) ==
    IF two
    THEN [sq |-> [sz.sq EXCEPT !.offset = 0], buf_size |-> sz.sq.offset,
          sq_buf_size |-> sz.ret - sz.sq.offset]
    ELSE [sq |-> sz.sq, buf_size |-> sz.ret, sq_buf_size |-> 0]

\* the struct mlx5_qp a successful create_qp leaves, lines 1601-1803;
\* usr_idx is -1 where no user index was stored, underlay is
\* MLX5_QP_FLAGS_USE_UNDERLAY, sz is what mlx5_calc_wq_size returned and
\* wrote (line 1680); the doorbell record is zeroed (lines 1726-1727), the
\* cursors by mlx5_init_qp_indices, rq.max_post is set to rq.wqe_cnt (line
\* 1788); has_wq is qp->sq.wqe_cnt || qp->rq.wqe_cnt
created_qp(qp_type, dc_type, s, r, srq, parent, usr_idx, qpn, underlay, sz) ==
    LET layout == create_qp_layout(qp_type = "RAW_PACKET" \/ underlay, sz) IN
    [qp_type |-> qp_type, dc_type |-> dc_type, rss_qp |-> FALSE,
     send_cq |-> s, recv_cq |-> r, srq |-> srq, parent |-> parent,
     rsn |-> qp_rsn(qp_type, usr_idx, qpn), qp_num |-> qpn,
     cmd_uidx |-> usr_idx, state |-> "RESET", kstate |-> "RESET",
     has_wq |-> sz.sq.wqe_cnt # 0 \/ sz.rq.wqe_cnt # 0,
     db |-> TRUE, buf |-> TRUE,
     sq |-> layout.sq,
     rq |-> [sz.rq EXCEPT !.max_post = sz.rq.wqe_cnt],
     buf_size |-> layout.buf_size,
     sq_buf_size |-> layout.sq_buf_size,
     max_inline_data |-> sz.max_inline_data,
     dbr |-> NoDbr]

\* create_qp, lines 1794-1796: the capabilities written back to the
\* caller's attr for the QP qp
create_qp_cap(qp) ==
    [max_send_wr |-> qp.sq.max_post, max_recv_wr |-> qp.rq.max_post,
     max_recv_sge |-> qp.rq.max_gs]

\* the struct mlx5_srq a successful mlx5_create_srq_ex leaves for an XRC
\* SRQ, lines 2509-2560
created_xsrq(c, usr_idx, srqn) ==
    [srq_type |-> "XRC", cq |-> c, srqn |-> srqn,
     rsn |-> IF cqe_version # 0 THEN usr_idx ELSE srqn,
     cmd_uidx |-> usr_idx, rsc_type |-> "XSRQ", cmd_qp |-> NULL]

\* the struct mlx5_rwq a successful create_wq leaves, lines 2757-2802
created_rwq(c, usr_idx, wqn, sz) ==
    [cq |-> c, rsn |-> usr_idx, wq_num |-> wqn, cmd_uidx |-> usr_idx,
     state |-> "RESET", rq |-> sz.rq, buf_size |-> sz.ret, dbr |-> NoDbr]

\* the sizes of a receive work queue of one descriptor with one scatter
\* entry, signatures off
default_rwq_sizes ==
    mlx5_calc_rwq_size(mctx, [max_wr |-> 1, max_sge |-> 1, mprq |-> "none"],
                       FALSE)

\* one protection domain allocated by mlx5_alloc_pd, no parent domain
InitPdOne ==
    /\ pd_live = {Min(PdIds)}
    /\ pd_refcount = [p \in PdIds |-> IF p = Min(PdIds) THEN 1 ELSE 0]
    /\ par_live = {}
    /\ par_refcount = [m \in ParIds |-> 0]
    /\ par_pd = [m \in ParIds |-> NULL]
    /\ par_td = [m \in ParIds |-> NULL]

\* the user index the i-th creation on a fresh context is given
nth_uidx(i) == IF cqe_version # 0 THEN i - 1 ELSE -1

\* the two QPs of a shared-CQ scenario
ScenarioQps == {q \in QpIds : q <= Min(QpIds) + 1}

\* two QPs created as RC QPs with work queues: the first on any pair of
\* CQs, the second on the same pair in the same or in the opposite roles;
\* then, if asked for, an XRC SRQ and, with user indexes, a receive work
\* queue
InitObjects(more) ==
    /\ InitTh /\ InitTd /\ InitPdOne
    /\ cqe_version \in {0, 1}
    /\ InitCtx
    /\ InitCqs
    /\ cq_cqn = [c \in CqIds |-> c]
    /\ cq_lock = [c \in CqIds |-> NULL]
    /\ cq_cqes = [c \in CqIds |-> <<>>]
    /\ qp_live = ScenarioQps
    /\ \E s \in CqIds, r \in CqIds, swap \in BOOLEAN :
         qps = [q \in QpIds |->
                  IF q = Min(QpIds)
                  THEN created_qp("RC", "none", s, r, NULL, NULL,
                                  nth_uidx(q), q, FALSE,
                                  default_sizes("RC", "none"))
                  ELSE IF q \in ScenarioQps
                  THEN created_qp("RC", "none", IF swap THEN r ELSE s,
                                  IF swap THEN s ELSE r, NULL, NULL,
                                  nth_uidx(q), q, FALSE,
                                  default_sizes("RC", "none"))
                  ELSE NoQp]
    /\ srq_live = IF more THEN SrqIds ELSE {}
    /\ srqs = [x \in SrqIds |->
                 IF x \in srq_live
                 THEN created_xsrq(Min(CqIds), nth_uidx(Cardinality(qp_live) + 1), x)
                 ELSE NoSrq]
    /\ wq_live = IF more /\ cqe_version # 0 THEN WqIds ELSE {}
    /\ wqs = [w \in WqIds |->
                IF w \in wq_live
                THEN created_rwq(Max(CqIds), nth_uidx(Cardinality(qp_live) + 2), w,
                                 default_rwq_sizes)
                ELSE NoWq]
    /\ k_live = {QpRef(q) : q \in qp_live} \cup {SrqRef(x) : x \in srq_live}
                \cup {WqRef(w) : w \in wq_live}
    /\ uidx_table = [i \in UidxIds |->
                       IF cqe_version = 0 THEN NoRef
                       ELSE IF i + 1 \in qp_live THEN QpRef(i + 1)
                       ELSE IF i = Cardinality(qp_live) /\ srq_live # {}
                       THEN SrqRef(Min(SrqIds))
                       ELSE IF i = Cardinality(qp_live) + 1 /\ wq_live # {}
                       THEN WqRef(Min(WqIds))
                       ELSE NoRef]
    /\ qp_table = [n \in Qpns |->
                     IF cqe_version = 0 /\ n \in qp_live THEN QpRef(n) ELSE NoRef]
    /\ srq_table = [n \in SrqIds |->
                      IF cqe_version = 0 /\ n \in srq_live
                      THEN SrqRef(n) ELSE NoRef]
    /\ qp_table_mutex = NULL
    /\ srq_table_mutex = NULL
    /\ t_qp = [t \in Threads |-> NULL]
    /\ t_obj = [t \in Threads |-> NULL]

\* ----------------------------------------------------------- create_qp

\* the struct mlx5_qp create_dct leaves, lines 1545-1558 and 1642: the
\* resource number is set with user indexes only, nothing is allocated
created_dct(s, r, srq, parent, usr_idx) ==
    [qp_type |-> "DRIVER", dc_type |-> "DCT", rss_qp |-> FALSE,
     send_cq |-> s, recv_cq |-> r, srq |-> srq, parent |-> parent,
     rsn |-> IF cqe_version # 0 THEN usr_idx ELSE 0, qp_num |-> 0,
     cmd_uidx |-> usr_idx, state |-> "RESET", kstate |-> "RESET", has_wq |-> FALSE,
     db |-> FALSE, buf |-> FALSE,
     sq |-> NoWqSize, rq |-> NoWqSize, buf_size |-> 0,
     sq_buf_size |-> 0, max_inline_data |-> 0, dbr |-> NoDbr]

\* the struct mlx5_qp mlx5_cmd_create_rss_qp leaves, lines 1454-1455 and
\* 1669
created_rss(parent, qpn) ==
    [qp_type |-> "RAW_PACKET", dc_type |-> "none", rss_qp |-> TRUE,
     send_cq |-> NULL, recv_cq |-> NULL, srq |-> NULL, parent |-> parent,
     rsn |-> 0, qp_num |-> qpn, cmd_uidx |-> -1, state |-> "RESET", kstate |-> "RESET",
     has_wq |-> FALSE, db |-> FALSE, buf |-> FALSE,
     sq |-> NoWqSize, rq |-> NoWqSize, buf_size |-> 0,
     sq_buf_size |-> 0, max_inline_data |-> 0, dbr |-> NoDbr]

\* the creation requests tried: the QP kinds on the first CQ for sends and
\* the last CQ for receives, an XRC receive target and an RSS QP without
\* queues, and two requests the validation turns down
CreateAttrs ==
    [kind : {"BAD_COMP_MASK", "DRIVER_NO_DV"}, send_cq : {NULL},
     recv_cq : {NULL}, pd : {NULL} \cup par_live, cap : {DefaultCap},
     srq : {NULL}, wq_sig : {FALSE}]
    \cup [kind : {"RC", "DCI", "DCT"}, send_cq : {Min(CqIds)},
          recv_cq : {Max(CqIds)}, pd : {NULL} \cup par_live,
          cap : {DefaultCap}, srq : {NULL}, wq_sig : {FALSE}]
    \cup [kind : {"XRC_SEND"}, send_cq : {Min(CqIds)}, recv_cq : {NULL},
          pd : {NULL} \cup par_live, cap : {DefaultCap}, srq : {NULL},
          wq_sig : {FALSE}]
    \cup [kind : {"XRC_RECV", "RSS"}, send_cq : {NULL}, recv_cq : {NULL},
          pd : {NULL} \cup par_live, cap : {NoCap}, srq : {NULL},
          wq_sig : {FALSE}]

attr_qp_type(attr) ==
    IF attr.kind \in {"DCI", "DCT", "DRIVER_NO_DV"} THEN "DRIVER"
    ELSE IF attr.kind = "RSS" THEN "RAW_PACKET"
    ELSE IF attr.kind = "UD_UNDERLAY" THEN "UD"
    ELSE attr.kind

\* mlx5_qp_attr->dc_init_attr.dc_type as create_qp records it, lines 1645-1647
attr_dc_type(attr) == IF attr.kind = "DCI" THEN "DCI" ELSE "none"

\* create_qp, lines 1595-1603: IBV_QP_CREATE_SOURCE_QPN on a UD QP sets
\* MLX5_QP_FLAGS_USE_UNDERLAY
attr_underlay(attr) == attr.kind = "UD_UNDERLAY"

\* the sizes mlx5_calc_wq_size gives the request attr, line 1680
create_qp_sizes(attr) ==
    mlx5_calc_wq_size(mctx,
                      [sizing_attr(attr_qp_type(attr), attr_dc_type(attr),
                                   attr.cap, attr.srq)
                         EXCEPT !.underlay = attr_underlay(attr)],
                      attr.wq_sig)

FreeQpIds == {q \in QpIds : q \notin qp_live /\ ~QpInFlight(q)}

\* create_qp fails before it has stored or locked anything, lines
\* 1580-1732 and 1819-1824: NULL is returned
create_qp_fails(t, r) ==
    /\ Finish(t, r)
    /\ UNCHANGED <<qp_live, qps, k_live, uidx_table, qp_table, par_refcount,
                   t_qp, qp_table_mutex, srq_table_mutex, trace>>

\* an unwinding that jumps past the label err_free_uidx
create_qp_err_free_uidx_skip(tbl, mtx, uidx, usr_idx) ==
    [uidx_table |-> tbl, qp_table_mutex |-> mtx]

\* label err_free_uidx, lines 1809-1813, applied to the uidx table and the
\* mutex as they are when the kernel command has failed
create_qp_err_free_uidx(tbl, mtx, uidx, usr_idx) ==
    [uidx_table |-> IF cqe_version = 0 THEN tbl
                    ELSE IF uidx THEN mlx5_clear_uidx(tbl, usr_idx)
                    ELSE tbl,
     qp_table_mutex |-> IF cqe_version = 0 THEN NULL ELSE mtx]

\* what the ordinary path has set up when it issues the kernel command,
\* lines 1696-1750
create_qp_setup_events(q, uidx, usr_idx) ==
    <<<<"alloc_buf", q>>, <<"alloc_db", q>>>>
    \o ( IF cqe_version = 0 THEN <<<<"mutex_lock", q>>>>
         ELSE IF uidx THEN <<<<"store_uidx", usr_idx>>>>
         ELSE <<>> )

\* what the ordinary path does to the QP table once the kernel command
\* has succeeded, lines 1774-1784
create_qp_stored_events(q, has_wq) ==
    IF cqe_version # 0 THEN <<>>
    ELSE ( IF has_wq THEN <<<<"store_qp", q>>>> ELSE <<>> )
         \o <<<<"mutex_unlock", q>>>>

\* the labels err_free_uidx to err, lines 1809-1822
create_qp_unwind_events(q, uidx, usr_idx) ==
    ( IF cqe_version = 0 THEN <<<<"mutex_unlock", q>>>>
      ELSE IF uidx THEN <<<<"clear_uidx", usr_idx>>>>
      ELSE <<>> )
    \o <<<<"free_db", q>>, <<"free_buf", q>>, <<"free", q>>>>

\* the kernel create command of the ordinary path fails with e, lines
\* 1761-1770 and 1809-1824
create_qp_cmd_fails(t, q, e, uidx, usr_idx) ==
    LET stored == IF uidx THEN mlx5_store_uidx(uidx_table, QpRef(q))
                  ELSE uidx_table
        locked == IF cqe_version = 0 THEN t ELSE qp_table_mutex
        unwound == create_qp_err_free_uidx(stored, locked, uidx, usr_idx)
    IN
    /\ uidx_table' = unwound.uidx_table
    /\ qp_table_mutex' = unwound.qp_table_mutex
    /\ UNCHANGED srq_table_mutex
    /\ trace' = [trace EXCEPT ![t] =
                   create_qp_setup_events(q, uidx, usr_idx)
                   \o <<<<"cmd_create_qp", q>>, <<"cmd_failed", e>>>>
                   \o create_qp_unwind_events(q, uidx, usr_idx)]
    /\ Finish(t, "NULL")
    /\ UNCHANGED <<qp_live, qps, k_live, qp_table, par_refcount, t_qp>>

\* the kernel create command of create_dct fails with e, lines 1534-1552,
\* and create_qp frees the QP, lines 1640-1641 and 1821-1824
create_dct_cmd_fails(t, q, e, usr_idx) ==
    LET stored == IF cqe_version # 0
                  THEN mlx5_store_uidx(uidx_table, QpRef(q))
                  ELSE uidx_table
    IN
    /\ uidx_table' = IF cqe_version # 0
                     THEN mlx5_clear_uidx(stored, usr_idx)
                     ELSE stored
    /\ trace' = [trace EXCEPT ![t] =
                   ( IF cqe_version # 0
                     THEN <<<<"store_uidx", usr_idx>>>> ELSE <<>> )
                   \o <<<<"cmd_create_qp", q>>, <<"cmd_failed", e>>>>
                   \o ( IF cqe_version # 0
                        THEN <<<<"clear_uidx", usr_idx>>>> ELSE <<>> )
                   \o <<<<"free", q>>>>]
    /\ Finish(t, "NULL")
    /\ UNCHANGED <<qp_live, qps, k_live, qp_table, par_refcount, t_qp,
                   qp_table_mutex, srq_table_mutex>>

\* the kernel command of mlx5_cmd_create_rss_qp fails with e, lines
\* 1663-1667 and 1821-1824
create_rss_cmd_fails(t, q, e) ==
    /\ trace' = [trace EXCEPT ![t] =
                   <<<<"cmd_create_qp", q>>, <<"cmd_failed", e>>,
                     <<"free", q>>>>]
    /\ Finish(t, "NULL")
    /\ UNCHANGED <<qp_live, qps, k_live, uidx_table, qp_table, par_refcount,
                   t_qp, qp_table_mutex, srq_table_mutex>>

\* the argument checks of create_qp, lines 1579-1659: what the call returns
\* when the request of that kind is turned down ("NULL" where errno is
\* left alone), "OK" when the request goes on to calloc and sizing
create_qp_validate(kind) ==
    IF kind \in {"BAD_COMP_MASK", "TSO_NOT_RAW", "DRIVER_NO_DV"} THEN "NULL"
    ELSE IF kind \in {"SOURCE_QPN_NOT_UD", "BAD_DV_COMP_MASK",
                      "DC_NOT_DRIVER", "BAD_DV_FLAGS", "DRIVER_BAD_DC"}
    THEN "EINVAL"
    ELSE "OK"

\* create_qp, lines 1561-1825.  attr.pd is the parent domain the QP is
\* created on, NULL for a plain protection domain; the kernel command
\* records attr->pd in the QP.
create_qp_attr(t, attr) ==
    /\   /\ Call(t, "create_qp", attr)
         /\ \/ /\ create_qp_validate(attr.kind) # "OK"
               /\ create_qp_fails(t, create_qp_validate(attr.kind))
            \/ /\ create_qp_validate(attr.kind) = "OK"
               /\ create_qp_fails(t, "ENOMEM")        \* calloc and later
            \/ /\ create_qp_validate(attr.kind) = "OK"
               /\ FreeQpIds # {}
               /\ \E sz \in {create_qp_sizes(attr)} :
                  LET q == Min(FreeQpIds)
                      usr_idx == free_uidx(uidx_table)
                      qp_type == attr_qp_type(attr)
                  IN
                  IF attr.kind = "DCT"
                  THEN IF cqe_version # 0 /\ usr_idx < 0
                       THEN create_qp_fails(t, "ENOMEM")
                       ELSE \/ \E e \in KernelErrnos :
                                 create_dct_cmd_fails(t, q, e, usr_idx)
                            \/ /\ uidx_table' =
                                    IF cqe_version # 0
                                    THEN mlx5_store_uidx(uidx_table, QpRef(q))
                                    ELSE uidx_table
                               /\ qps' = [qps EXCEPT ![q] =
                                    created_dct(attr.send_cq, attr.recv_cq,
                                                NULL, attr.pd,
                                                IF cqe_version # 0
                                                THEN usr_idx ELSE -1)]
                               /\ qp_live' = qp_live \cup {q}
                               /\ k_live' = k_live \cup {QpRef(q)}
                               /\ t_qp' = [t_qp EXCEPT ![t] = q]
                               /\ trace' = [trace EXCEPT ![t] =
                                    ( IF cqe_version # 0
                                      THEN <<<<"store_uidx", usr_idx>>>>
                                      ELSE <<>> )
                                    \o <<<<"cmd_create_qp", q>>>>]
                               /\ Finish(t, "OK")
                               /\ UNCHANGED <<qp_table, par_refcount,
                                              qp_table_mutex,
                                              srq_table_mutex>>
                  ELSE IF attr.kind = "RSS"
                  THEN \/ \E e \in KernelErrnos :
                            create_rss_cmd_fails(t, q, e)
                       \/ /\ qps' = [qps EXCEPT ![q] =
                                       created_rss(attr.pd, free_qpn)]
                          /\ qp_live' = qp_live \cup {q}
                          /\ k_live' = k_live \cup {QpRef(q)}
                          /\ t_qp' = [t_qp EXCEPT ![t] = q]
                          /\ trace' = [trace EXCEPT ![t] =
                                         <<<<"cmd_create_qp", q>>>>]
                          /\ Finish(t, "OK")
                          /\ UNCHANGED <<uidx_table, qp_table, par_refcount,
                                         qp_table_mutex, srq_table_mutex>>
                  ELSE IF sz.ret < 0
                  THEN create_qp_fails(t, errno_of(sz.ret))
                  ELSE /\ cqe_version = 0 => qp_table_mutex = NULL
                       /\ IF cqe_version # 0 /\ ~is_xrc_tgt(qp_type) /\ usr_idx < 0
                          THEN create_qp_fails(t, "ENOMEM")
                          ELSE LET uidx == cqe_version # 0 /\ ~is_xrc_tgt(qp_type)
                                   has_wq == sz.sq.wqe_cnt # 0
                                             \/ sz.rq.wqe_cnt # 0
                               IN
                               \/ \E e \in KernelErrnos :
                                    create_qp_cmd_fails(t, q, e, uidx, usr_idx)
                               \/ /\ uidx_table' =
                                       IF uidx
                                       THEN mlx5_store_uidx(uidx_table, QpRef(q))
                                       ELSE uidx_table
                                  /\ qp_table' =
                                       IF cqe_version = 0 /\ has_wq
                                       THEN mlx5_store_qp(qp_table, free_qpn, QpRef(q))
                                       ELSE qp_table
                                  /\ qps' = [qps EXCEPT ![q] =
                                       created_qp(qp_type,
                                                  attr_dc_type(attr),
                                                  attr.send_cq, attr.recv_cq,
                                                  attr.srq, attr.pd,
                                                  IF uidx THEN usr_idx ELSE -1,
                                                  free_qpn,
                                                  attr_underlay(attr), sz)]
                                  /\ par_refcount' =
                                       IF attr.pd # NULL
                                       THEN [par_refcount EXCEPT ![attr.pd] = @ + 1]
                                       ELSE par_refcount
                                  /\ qp_live' = qp_live \cup {q}
                                  /\ k_live' = k_live \cup {QpRef(q)}
                                  /\ t_qp' = [t_qp EXCEPT ![t] = q]
                                  /\ trace' = [trace EXCEPT ![t] =
                                       create_qp_setup_events(q, uidx, usr_idx)
                                       \o <<<<"cmd_create_qp", q>>>>
                                       \o create_qp_stored_events(q, has_wq)]
                                  /\ Finish(t, "OK")
                                  /\ UNCHANGED <<qp_table_mutex,
                                                 srq_table_mutex>>
    /\ UNCHANGED <<tdvars, pd_live, pd_refcount, par_live, par_pd,
                   par_td, ctxvars, cqobjs, cqvars, srq_live, srqs, wq_live, wqs,
                   srq_table, t_obj>>

\* create_qp called with one of the requests the tests of the other verbs
\* use
create_qp(t) == \E attr \in CreateAttrs : create_qp_attr(t, attr)

\* an inline size near the top of the int range: 0x7ffffff0
MaxInlineTried == 2147483632

\* send queues alone: depths, scatter counts and inline sizes around the
\* adapter's limits, and the largest inline size tried
SendCaps ==
    {[max_send_wr |-> n, max_send_sge |-> g[1], max_inline_data |-> g[2],
      max_recv_wr |-> 0, max_recv_sge |-> 0] :
        n \in {1, 200, mctx.max_send_wqebb + 1, 4194303, 4194304},
        g \in {<<0, 0>>, <<0, 64>>, <<1, 0>>, <<1, 64>>, <<30, 0>>,
               <<1, 400>>, <<1, MaxInlineTried>>}}

\* receive queues alone, and no queue at all
RecvCaps ==
    [max_send_wr : {0}, max_send_sge : {0}, max_inline_data : {0},
     max_recv_wr : {0, 1, 5, mctx.max_recv_wr, mctx.max_recv_wr + 1},
     max_recv_sge : {0, 1, 3, 40}]

\* a send queue and a receive queue, one of them or none
BothCaps ==
    [max_send_wr : {0, 5}, max_send_sge : {2}, max_inline_data : {0},
     max_recv_wr : {0, 3}, max_recv_sge : {3}]

\* requests for QP kinds that have work queues
SizedAttrs ==
    [kind : {"RC", "DCI"}, send_cq : {Min(CqIds)}, recv_cq : {Max(CqIds)},
     pd : {NULL}, cap : SendCaps, srq : {NULL}, wq_sig : {FALSE}]
    \cup [kind : {"XRC_SEND"}, send_cq : {Min(CqIds)}, recv_cq : {NULL},
          pd : {NULL}, cap : SendCaps, srq : {NULL}, wq_sig : {FALSE}]
    \cup [kind : {"RC"}, send_cq : {Min(CqIds)}, recv_cq : {Max(CqIds)},
          pd : {NULL}, cap : RecvCaps, srq : {NULL} \cup srq_live,
          wq_sig : BOOLEAN]
    \cup [kind : {"RC", "UD", "UD_UNDERLAY", "RAW_PACKET"},
          send_cq : {Min(CqIds)}, recv_cq : {Max(CqIds)}, pd : {NULL},
          cap : BothCaps, srq : {NULL}, wq_sig : {FALSE}]

\* create_qp called with a request of SizedAttrs
create_qp_sized(t) ==
    Idle(t) /\ \E attr \in SizedAttrs : create_qp_attr(t, attr)

\* ----------------------------------------------------------- create_wq

FreeWqIds == {w \in WqIds : w \notin wq_live /\ ~ObjInFlight(w)}

\* the receive work queue requests tried: depths around the adapter's
\* maximum and depths whose byte count leaves the int range
WqAttrs ==
    [wq_type : {"RQ"}, cq : {Max(CqIds)},
     max_wr : {0, 1, 5, mctx.max_recv_wr, mctx.max_recv_wr + 1,
               67108864, 67108865, 1073741825},
     max_sge : {1, 3, 40}, mprq : {"none", "striding"},
     wq_sig : BOOLEAN]
    \cup [wq_type : {"OTHER"}, cq : {Max(CqIds)}, max_wr : {1},
          max_sge : {1}, mprq : {"none"}, wq_sig : {FALSE}]
    \cup [wq_type : {"RQ"}, cq : {Max(CqIds)}, max_wr : {1}, max_sge : {1},
          mprq : {"bad_mask", "bad_stride"}, wq_sig : {FALSE}]

\* create_wq returns NULL having stored nothing, lines 2717-2748 and
\* 2812-2816
create_wq_fails(t, r) ==
    /\ Finish(t, r)
    /\ UNCHANGED <<wq_live, wqs, k_live, uidx_table, t_obj, trace>>

\* an unwinding that jumps past the label err_create
create_wq_clear_uidx_skip(tbl, usr_idx) == tbl

\* label err_create, lines 2808-2809
create_wq_clear_uidx(tbl, usr_idx) == mlx5_clear_uidx(tbl, usr_idx)

\* create_wq fails after mlx5_store_uidx, lines 2766-2800 and 2808-2816:
\* the user index is given back
create_wq_err_create(t, w, usr_idx, r, events) ==
    /\ uidx_table' = create_wq_clear_uidx(
                         mlx5_store_uidx(uidx_table, WqRef(w)), usr_idx)
    /\ trace' = [trace EXCEPT ![t] =
                   <<<<"alloc_buf", w>>, <<"alloc_db", w>>,
                     <<"store_uidx", usr_idx>>>>
                   \o events
                   \o <<<<"clear_uidx", usr_idx>>, <<"free_db", w>>,
                        <<"free_buf", w>>, <<"free", w>>>>]
    /\ Finish(t, r)
    /\ UNCHANGED <<wq_live, wqs, k_live, t_obj>>

\* create_wq, lines 2704-2817
create_wq_attr(t, attr) ==
    /\   /\ Call(t, "create_wq", attr)
         /\ \/ /\ attr.wq_type # "RQ"
               /\ create_wq_fails(t, "NULL")
            \/ /\ attr.wq_type = "RQ"
               /\ create_wq_fails(t, "ENOMEM")        \* calloc and later
            \/ /\ attr.wq_type = "RQ"
               /\ FreeWqIds # {}
               /\ LET w == Min(FreeWqIds)
                      usr_idx == free_uidx(uidx_table)
                      sz == mlx5_calc_rwq_size(mctx, attr, attr.wq_sig)
                  IN
                  IF sz.ret < 0 THEN create_wq_fails(t, errno_of(sz.ret))
                  ELSE IF usr_idx < 0 THEN create_wq_fails(t, "NULL")
                  ELSE IF attr.mprq = "bad_stride"
                  THEN create_wq_err_create(t, w, usr_idx, "EINVAL", <<>>)
                  ELSE \/ \E e \in KernelErrnos :
                            create_wq_err_create(
                                t, w, usr_idx, "NULL",
                                <<<<"cmd_create_wq", w>>, <<"cmd_failed", e>>>>)
                       \/ /\ uidx_table' = mlx5_store_uidx(uidx_table, WqRef(w))
                          /\ wqs' = [wqs EXCEPT ![w] =
                                       created_rwq(attr.cq, usr_idx, w, sz)]
                          /\ wq_live' = wq_live \cup {w}
                          /\ k_live' = k_live \cup {WqRef(w)}
                          /\ t_obj' = [t_obj EXCEPT ![t] = w]
                          /\ Finish(t, "OK")
                          /\ UNCHANGED trace
    /\ UNCHANGED <<tdvars, pdvars, ctxvars, cqobjs, cqvars, qp_live, qps,
                   srq_live, srqs, qp_table, srq_table, qp_table_mutex,
                   srq_table_mutex, t_qp>>

\* create_wq called with one of the requests of WqAttrs
create_wq(t) == Idle(t) /\ \E attr \in WqAttrs : create_wq_attr(t, attr)

\* --------------------------------- mlx5_create_srq, mlx5_create_srq_ex
\*
\* The creating verbs that take a table mutex are split where the mutex is
\* taken and again where the kernel command returns, so that the other
\* threads see the state in which the kernel holds an object no table has.

FreeSrqIds == {x \in SrqIds : x \notin srq_live /\ ~ObjInFlight(x)}

\* the SRQ requests tried: the kinds of SRQ, a tag-matching SRQ on a CQ
\* that is not an extended CQ ("TM"), scatter counts around
\* max_rq_desc_sz / sizeof(struct mlx5_wqe_data_seg) and around
\* max_recv_wr / sizeof(struct mlx5_wqe_data_seg), a depth above the
\* adapter's
SrqAttrs ==
    [srq_type : {"BASIC", "XRC"}, cq : {Min(CqIds)}, max_wr : {1},
     max_sge : {32, 33, 2049}]
    \cup [srq_type : {"BASIC", "XRC"}, cq : {Min(CqIds)},
          max_wr : {mctx.max_srq_recv_wr + 1}, max_sge : {1}]
    \cup [srq_type : {"TM", "OTHER"}, cq : {Min(CqIds)}, max_wr : {1},
          max_sge : {1}]

\* the verb returns NULL before it has taken a lock or stored anything,
\* lines 860-903 and 941-946, 2440-2500 and 2583-2589
create_srq_fails(t, r) ==
    /\ Finish(t, r)
    /\ UNCHANGED <<srq_live, srqs, k_live, uidx_table, srq_table,
                   srq_table_mutex, t_obj, trace>>

\* the struct mlx5_srq a successful mlx5_create_srq leaves, lines 929-931
created_srq(srqn) ==
    [srq_type |-> "BASIC", cq |-> NULL, srqn |-> srqn, rsn |-> srqn,
     cmd_uidx |-> -1, rsc_type |-> "SRQ", cmd_qp |-> NULL]

\* mlx5_create_srq, line 886
create_srq_max_sge(ctx) ==
    ctx.max_rq_desc_sz \div sizeof_mlx5_wqe_data_seg

\* mlx5_create_srq_ex, line 2476
create_srq_ex_max_sge(ctx) ==
    ctx.max_recv_wr \div sizeof_mlx5_wqe_data_seg

\* mlx5_create_srq, lines 858-916, entered as the verb `name`: the checks
\* and the allocations made before the table mutex is asked for
create_srq_begin(t, name, attr) ==
    /\ Call(t, name, attr)
    /\ \/ create_srq_fails(t, "ENOMEM")      \* calloc and later allocations
       \/ /\ attr.max_wr > mctx.max_srq_recv_wr
          /\ create_srq_fails(t, "EINVAL")
       \/ /\ attr.max_wr <= mctx.max_srq_recv_wr
          /\ attr.max_sge > create_srq_max_sge(mctx)
          /\ create_srq_fails(t, "EINVAL")
       \/ /\ attr.max_wr <= mctx.max_srq_recv_wr
          /\ attr.max_sge <= create_srq_max_sge(mctx)
          /\ FreeSrqIds # {}
          /\ t_obj' = [t_obj EXCEPT ![t] = Min(FreeSrqIds)]
          /\ trace' = [trace EXCEPT ![t] =
                         <<<<"alloc_buf", Min(FreeSrqIds)>>,
                           <<"alloc_db", Min(FreeSrqIds)>>>>]
          /\ Goto(t, "create_srq_lock")
          /\ UNCHANGED <<srq_live, srqs, k_live, uidx_table, srq_table,
                         srq_table_mutex>>

\* mlx5_create_srq, lines 847-916
mlx5_create_srq(t) ==
    /\ \E attr \in {a \in SrqAttrs : a.srq_type = "BASIC"} :
         create_srq_begin(t, "mlx5_create_srq", attr)
    /\ UNCHANGED <<tdvars, pdvars, ctxvars, cqobjs, cqvars, qp_live, qps,
                   wq_live, wqs, qp_table, qp_table_mutex, t_qp>>

\* an unwinding that frees everything and leaves the mutex locked
create_srq_unwind_keep_mutex(t, x, events) ==
    /\ srq_table_mutex' = t
    /\ trace' = [trace EXCEPT ![t] =
                   @ \o events
                     \o <<<<"free_db", x>>, <<"free_buf", x>>, <<"free", x>>>>]
    /\ Finish(t, "NULL")

\* lines 939-946 (err_db to err) and 2575-2589 (err_free_uidx to err) in
\* legacy indexing mode: the mutex is released, everything is freed
create_srq_unwind(t, x, events) ==
    /\ srq_table_mutex' = NULL
    /\ trace' = [trace EXCEPT ![t] =
                   @ \o events
                     \o <<<<"mutex_unlock", x>>, <<"free_db", x>>,
                          <<"free_buf", x>>, <<"free", x>>>>]
    /\ Finish(t, "NULL")

\* mlx5_create_srq, lines 917-921 and 939: the mutex is taken and the
\* kernel command issued
create_srq_cmd(t) ==
    /\ pc[t] = "create_srq_lock"
    /\ srq_table_mutex = NULL
    /\ LET x == t_obj[t] IN
       \/ /\ \E e \in KernelErrnos :
               create_srq_unwind(t, x, <<<<"mutex_lock", x>>,
                                         <<"cmd_create_srq", x>>,
                                         <<"cmd_failed", e>>>>)
          /\ UNCHANGED k_live
       \/ /\ srq_table_mutex' = t
          /\ k_live' = k_live \cup {SrqRef(x)}
          /\ trace' = [trace EXCEPT ![t] =
                         @ \o <<<<"mutex_lock", x>>, <<"cmd_create_srq", x>>>>]
          /\ Goto(t, "create_srq_store")
    /\ UNCHANGED <<op, tdvars, pdvars, ctxvars, cqobjs, cqvars, qp_live, qps,
                   srq_live, srqs, wq_live, wqs, uidx_table, qp_table,
                   srq_table, qp_table_mutex, t_qp, t_obj>>

\* mlx5_create_srq, lines 923-939: the SRQ is stored under its kernel
\* number and the mutex released; mlx5_store_srq can fail for want of
\* memory, and the kernel object is destroyed again
create_srq_store_locked(t, x) ==
    \/ /\ create_srq_unwind(t, x, <<<<"cmd_destroy_srq", x>>>>)
       /\ k_live' = k_live \ {SrqRef(x)}
       /\ UNCHANGED <<srq_table, srqs, srq_live>>
    \/ /\ srq_table' = mlx5_store_srq(srq_table, x, SrqRef(x))
       /\ srq_table_mutex' = NULL
       /\ srqs' = [srqs EXCEPT ![x] = created_srq(x)]
       /\ srq_live' = srq_live \cup {x}
       /\ trace' = [trace EXCEPT ![t] =
                      @ \o <<<<"store_srq", x>>, <<"mutex_unlock", x>>>>]
       /\ Finish(t, "OK")
       /\ UNCHANGED k_live

create_srq_store(t) ==
    /\ pc[t] = "create_srq_store"
    /\ srq_table_mutex = t
    /\ create_srq_store_locked(t, t_obj[t])
    /\ UNCHANGED <<op, tdvars, pdvars, ctxvars, cqobjs, cqvars, qp_live, qps,
                   wq_live, wqs, uidx_table, qp_table, qp_table_mutex, t_qp,
                   t_obj>>

\* mlx5_create_srq_ex fails after mlx5_store_uidx, lines 2509-2516,
\* 2521-2525 and 2575-2589: the user index is given back
create_srq_ex_err_free_uidx(t, x, usr_idx, e) ==
    /\ uidx_table' = mlx5_clear_uidx(
                         mlx5_store_uidx(uidx_table, SrqRef(x)), usr_idx)
    /\ trace' = [trace EXCEPT ![t] =
                   <<<<"alloc_buf", x>>, <<"alloc_db", x>>,
                     <<"store_uidx", usr_idx>>, <<"cmd_create_srq", x>>,
                     <<"cmd_failed", e>>, <<"clear_uidx", usr_idx>>,
                     <<"free_db", x>>, <<"free_buf", x>>, <<"free", x>>>>]
    /\ Finish(t, "NULL")
    /\ UNCHANGED <<srq_live, srqs, k_live, srq_table, srq_table_mutex, t_obj>>

\* mlx5_create_srq_ex, lines 2420-2519 and, with user indexes, to its end
mlx5_create_srq_ex(t) ==
    /\ \E attr \in SrqAttrs :
         IF attr.srq_type = "BASIC"
         THEN create_srq_begin(t, "mlx5_create_srq_ex", attr)
         ELSE /\ Call(t, "mlx5_create_srq_ex", attr)
              /\ \/ /\ attr.srq_type \in {"OTHER", "TM"}
                    /\ create_srq_fails(t, "EINVAL")
                 \/ /\ attr.srq_type = "XRC"
                    /\ create_srq_fails(t, "ENOMEM")  \* calloc and later
                 \/ /\ attr.srq_type = "XRC"
                    /\ attr.max_wr > mctx.max_srq_recv_wr
                    /\ create_srq_fails(t, "EINVAL")
                 \/ /\ attr.srq_type = "XRC"
                    /\ attr.max_wr <= mctx.max_srq_recv_wr
                    /\ attr.max_sge > create_srq_ex_max_sge(mctx)
                    /\ create_srq_fails(t, "EINVAL")
                 \/ /\ attr.srq_type = "XRC"
                    /\ attr.max_wr <= mctx.max_srq_recv_wr
                    /\ attr.max_sge <= create_srq_ex_max_sge(mctx)
                    /\ FreeSrqIds # {}
                    /\ LET x == Min(FreeSrqIds)
                           usr_idx == free_uidx(uidx_table)
                       IN
                       IF cqe_version = 0
                       THEN /\ t_obj' = [t_obj EXCEPT ![t] = x]
                            /\ trace' = [trace EXCEPT ![t] =
                                           <<<<"alloc_buf", x>>,
                                             <<"alloc_db", x>>>>]
                            /\ Goto(t, "create_srq_ex_lock")
                            /\ UNCHANGED <<srq_live, srqs, k_live, uidx_table,
                                           srq_table, srq_table_mutex>>
                       ELSE IF usr_idx < 0 THEN create_srq_fails(t, "NULL")
                       ELSE \/ \E e \in KernelErrnos :
                                 create_srq_ex_err_free_uidx(t, x, usr_idx, e)
                            \/ /\ uidx_table' =
                                    mlx5_store_uidx(uidx_table, SrqRef(x))
                               /\ srqs' = [srqs EXCEPT ![x] =
                                             created_xsrq(attr.cq, usr_idx, x)]
                               /\ srq_live' = srq_live \cup {x}
                               /\ k_live' = k_live \cup {SrqRef(x)}
                               /\ t_obj' = [t_obj EXCEPT ![t] = x]
                               /\ trace' = [trace EXCEPT ![t] =
                                    <<<<"alloc_buf", x>>, <<"alloc_db", x>>,
                                      <<"store_uidx", usr_idx>>,
                                      <<"cmd_create_srq", x>>>>]
                               /\ Finish(t, "OK")
                               /\ UNCHANGED <<srq_table, srq_table_mutex>>
    /\ UNCHANGED <<tdvars, pdvars, ctxvars, cqobjs, cqvars, qp_live, qps,
                   wq_live, wqs, qp_table, qp_table_mutex, t_qp>>

\* mlx5_create_srq_ex without user indexes, lines 2518-2525 and 2578: the
\* mutex is taken and the kernel command issued
create_srq_ex_cmd(t) ==
    /\ pc[t] = "create_srq_ex_lock"
    /\ srq_table_mutex = NULL
    /\ LET x == t_obj[t] IN
       \/ /\ \E e \in KernelErrnos :
               create_srq_unwind(t, x, <<<<"mutex_lock", x>>,
                                         <<"cmd_create_srq", x>>,
                                         <<"cmd_failed", e>>>>)
          /\ UNCHANGED k_live
       \/ /\ srq_table_mutex' = t
          /\ k_live' = k_live \cup {SrqRef(x)}
          /\ trace' = [trace EXCEPT ![t] =
                         @ \o <<<<"mutex_lock", x>>, <<"cmd_create_srq", x>>>>]
          /\ Goto(t, "create_srq_ex_store")
    /\ UNCHANGED <<op, tdvars, pdvars, ctxvars, cqobjs, cqvars, qp_live, qps,
                   srq_live, srqs, wq_live, wqs, uidx_table, qp_table,
                   srq_table, qp_table_mutex, t_qp, t_obj>>

\* mlx5_create_srq_ex without user indexes, lines 2551-2578: the SRQ is
\* stored under its kernel number and the mutex released
create_srq_ex_store(t) ==
    /\ pc[t] = "create_srq_ex_store"
    /\ srq_table_mutex = t
    /\ LET x == t_obj[t] IN
       \/ /\ create_srq_unwind(t, x, <<<<"cmd_destroy_srq", x>>>>)
          /\ k_live' = k_live \ {SrqRef(x)}
          /\ UNCHANGED <<srq_table, srqs, srq_live>>
       \/ /\ srq_table' = mlx5_store_srq(srq_table, x, SrqRef(x))
          /\ srq_table_mutex' = NULL
          /\ srqs' = [srqs EXCEPT ![x] = created_xsrq(op[t].arg.cq, -1, x)]
          /\ srq_live' = srq_live \cup {x}
          /\ trace' = [trace EXCEPT ![t] =
                         @ \o <<<<"store_srq", x>>, <<"mutex_unlock", x>>>>]
          /\ Finish(t, "OK")
          /\ UNCHANGED k_live
    /\ UNCHANGED <<op, tdvars, pdvars, ctxvars, cqobjs, cqvars, qp_live, qps,
                   wq_live, wqs, uidx_table, qp_table, qp_table_mutex, t_qp,
                   t_obj>>

\* ------------------------- create_qp without user indexes, step by step

\* the requests of the ordinary path: QPs with queues and an XRC receive
\* target without
LegacyAttrs == {a \in CreateAttrs : a.kind \in {"RC", "XRC_SEND", "XRC_RECV"}}

\* create_qp, lines 1561-1738, when ctx->cqe_version is 0: everything the
\* call does before it asks for the QP table mutex
create_qp_begin(t) ==
    /\ cqe_version = 0
    /\ \E attr \in LegacyAttrs :
         /\ Call(t, "create_qp", attr)
         /\ \/ create_qp_fails(t, "ENOMEM")           \* calloc and later
            \/ /\ create_qp_sizes(attr).ret < 0
               /\ create_qp_fails(t, errno_of(create_qp_sizes(attr).ret))
            \/ /\ create_qp_sizes(attr).ret >= 0
               /\ FreeQpIds # {}
               /\ t_qp' = [t_qp EXCEPT ![t] = Min(FreeQpIds)]
               /\ trace' = [trace EXCEPT ![t] =
                              <<<<"alloc_buf", Min(FreeQpIds)>>,
                                <<"alloc_db", Min(FreeQpIds)>>>>]
               /\ Goto(t, "create_qp_lock")
               /\ UNCHANGED <<qp_live, qps, k_live, uidx_table, qp_table,
                              par_refcount, qp_table_mutex, srq_table_mutex>>
    /\ UNCHANGED <<tdvars, pd_live, pd_refcount, par_live, par_pd,
                   par_td, ctxvars, cqobjs, cqvars, srq_live, srqs, wq_live, wqs,
                   srq_table, t_obj>>

\* a call that goes on to the kernel command without the mutex
create_qp_no_lock(mtx, t) == mtx

\* create_qp, line 1741: pthread_mutex_lock(&ctx->qp_table_mutex)
create_qp_lock(mtx, t) == t

\* create_qp, lines 1739-1770 and 1809-1824, when ctx->cqe_version is 0:
\* the mutex is taken and the kernel command issued; the command gives the
\* QP its number
create_qp_locked_cmd(t) ==
    /\ pc[t] = "create_qp_lock"
    /\ qp_table_mutex = NULL
    /\ \E sz \in {create_qp_sizes(op[t].arg)} :
       LET q == t_qp[t]
           attr == op[t].arg
       IN
       \/ /\ \E e \in KernelErrnos :
               trace' = [trace EXCEPT ![t] =
                           @ \o <<<<"mutex_lock", q>>, <<"cmd_create_qp", q>>,
                                  <<"cmd_failed", e>>>>
                             \o create_qp_unwind_events(q, FALSE, -1)]
          /\ Finish(t, "NULL")
          /\ UNCHANGED <<qps, k_live, qp_table_mutex>>
       \/ /\ qp_table_mutex' = create_qp_lock(qp_table_mutex, t)
          /\ k_live' = k_live \cup {QpRef(q)}
          /\ qps' = [qps EXCEPT ![q] =
                       created_qp(attr_qp_type(attr), "none", attr.send_cq,
                                  attr.recv_cq, attr.srq, attr.pd, -1,
                                  free_qpn, attr_underlay(attr), sz)]
          /\ trace' = [trace EXCEPT ![t] =
                         @ \o <<<<"mutex_lock", q>>, <<"cmd_create_qp", q>>>>]
          /\ Goto(t, "create_qp_store")
    /\ UNCHANGED <<op, tdvars, pdvars, ctxvars, cqobjs, cqvars, qp_live,
                   srq_live, srqs, wq_live, wqs, uidx_table, qp_table,
                   srq_table, srq_table_mutex, t_qp, t_obj>>

\* create_qp, lines 1772-1824, when ctx->cqe_version is 0: a QP with
\* queues is stored under its number, the mutex is released and the QP
\* handed to the caller; mlx5_store_qp can fail for want of memory, and
\* the kernel object is destroyed again
create_qp_store_unlock(t) ==
    /\ pc[t] = "create_qp_store"
    /\ LET q == t_qp[t]
           qp == qps[q]
       IN
       \/ /\ qp.has_wq
          /\ k_live' = k_live \ {QpRef(q)}
          /\ qps' = [qps EXCEPT ![q] = NoQp]
          /\ trace' = [trace EXCEPT ![t] =
                         @ \o <<<<"cmd_destroy_qp", q>>>>
                           \o create_qp_unwind_events(q, FALSE, -1)]
          /\ Finish(t, "NULL")
          /\ UNCHANGED <<qp_table, qp_live, par_refcount>>
       \/ /\ qp_table' = IF qp.has_wq
                         THEN mlx5_store_qp(qp_table, qp.qp_num, QpRef(q))
                         ELSE qp_table
          /\ qp_live' = qp_live \cup {q}
          /\ par_refcount' =
               IF qp.parent # NULL
               THEN [par_refcount EXCEPT ![qp.parent] = @ + 1]
               ELSE par_refcount
          /\ trace' = [trace EXCEPT ![t] =
                         @ \o create_qp_stored_events(q, qp.has_wq)]
          /\ Finish(t, "OK")
          /\ UNCHANGED <<qps, k_live>>
    /\ qp_table_mutex' = NULL
    /\ UNCHANGED <<op, tdvars, pd_live, pd_refcount, par_live, par_pd, par_td,
                   ctxvars, cqobjs, cqvars, srq_live, srqs, wq_live, wqs,
                   uidx_table, srq_table, srq_table_mutex, t_qp, t_obj>>

\* ------------------------------------------- mlx5_modify_qp, modify_dct

\* attr->qp_state when attr_mask has IBV_QP_STATE; "none" when it has not
ModifyStates == {"none", "RESET", "INIT", "RTR"}

\* the transitions the kernel command can accept: attribute changes
\* without a state, a reset of a QP other than a DCT, and the steps from
\* RESET to INIT and from INIT to RTR
kernel_accepts(qp, new) ==
    \/ new = "none"
    \/ new = "RESET" /\ qp.dc_type # "DCT"
    \/ new = "INIT" /\ qp.kstate = "RESET"
    \/ new = "RTR" /\ qp.kstate = "INIT"

\* the kernel command has succeeded and the verb returns an error: the
\* kernel's QP carries the new state, ibqp->state is left as it was, since
\* ibv_modify_qp writes it only after modify_qp has returned 0
kernel_modified(qp, new) ==
    IF new = "none" THEN qp ELSE [qp EXCEPT !.kstate = new]

\* ibv_cmd_modify_qp has succeeded and the verb returns 0: the kernel's QP
\* and ibqp->state carry the new state
modified(qp, new) ==
    IF new = "none" THEN qp ELSE [qp EXCEPT !.state = new, !.kstate = new]

\* a modify to RTR that leaves the table alone
dct_store_qp_never(tbl, dctn, ref) == tbl

\* modify_dct, line 2022
dct_store_qp(tbl, dctn, ref) == mlx5_store_qp(tbl, dctn, ref)

\* modify_dct, lines 1978-2031, for the DCT q and the requested state
modify_dct(t, q, new) ==
    \/ /\ \E e \in KernelErrnos :
            /\ Finish(t, e)
            /\ trace' = [trace EXCEPT ![t] =
                           <<<<"cmd_modify_qp", q>>, <<"cmd_failed", e>>>>]
       /\ UNCHANGED <<qps, qp_table>>
    \/ /\ kernel_accepts(qps[q], new)
       /\ new # "RTR"
       /\ qps' = [qps EXCEPT ![q] = modified(@, new)]
       /\ trace' = [trace EXCEPT ![t] = <<<<"cmd_modify_qp", q>>>>]
       /\ Finish(t, "OK")
       /\ UNCHANGED qp_table
    \/ /\ kernel_accepts(qps[q], new)
       /\ new = "RTR"
       /\ trace' = [trace EXCEPT ![t] = <<<<"cmd_modify_qp", q>>>>]
       /\ \/ /\ qps' = [qps EXCEPT ![q] = kernel_modified(@, new)]
             /\ Finish(t, "EINVAL")          \* response without a DCT number
             /\ UNCHANGED qp_table
          \/ /\ cqe_version # 0
             /\ qps' = [qps EXCEPT ![q] =
                          [modified(@, new) EXCEPT !.qp_num = free_qpn]]
             /\ Finish(t, "OK")
             /\ UNCHANGED qp_table
          \/ /\ cqe_version = 0
             /\ qp_table_mutex = NULL
             /\ \/ /\ qp_table' = dct_store_qp(qp_table, free_qpn, QpRef(q))
                   /\ qps' = [qps EXCEPT ![q] =
                                [modified(@, new) EXCEPT
                                   !.qp_num = free_qpn, !.rsn = free_qpn]]
                   /\ Finish(t, "OK")
                \/ /\ qps' = [qps EXCEPT ![q] =
                                [kernel_modified(@, new) EXCEPT
                                   !.qp_num = free_qpn]]
                   /\ Finish(t, "ENOMEM")    \* mlx5_store_qp has no memory
                   /\ UNCHANGED qp_table

\* mlx5_init_qp_indices as called at line 2104: the cursors of both queues
mlx5_init_qp_indices(qp) ==
    [qp EXCEPT !.sq.head = 0, !.sq.tail = 0, !.rq.head = 0, !.rq.tail = 0]

\* a reset that leaves the send half of the doorbell record alone
modify_qp_reset_db_rcv_only(qp) == [qp EXCEPT !.dbr.rcv = 0]

\* mlx5_modify_qp, lines 2105-2107
modify_qp_reset_db(qp) == [qp EXCEPT !.dbr = NoDbr]

\* mlx5_modify_qp, lines 2118-2126: a raw packet QP moved to RTR
modify_qp_rtr_db(qp, new) ==
    IF new = "RTR" /\ qp.qp_type = "RAW_PACKET"
    THEN [qp EXCEPT !.dbr.rcv = qp.rq.head % 65536]
    ELSE qp

\* mlx5_modify_qp, lines 2033-2095 and 2118-2128: the kernel command
mlx5_modify_qp(t) ==
    /\ \E q \in QpIds, new \in ModifyStates :
         /\ QpCallable(q)
         /\ Call(t, "mlx5_modify_qp", [qp |-> q, state |-> new])
         /\ IF qps[q].dc_type = "DCT"
            THEN modify_dct(t, q, new) /\ UNCHANGED t_qp
            ELSE IF qps[q].rss_qp
            THEN /\ Finish(t, "ENOSYS")
                 /\ UNCHANGED <<qps, qp_table, t_qp, trace>>
            ELSE \/ /\ \E e \in KernelErrnos :
                         /\ Finish(t, e)
                         /\ trace' = [trace EXCEPT ![t] =
                                        <<<<"cmd_modify_qp", q>>,
                                          <<"cmd_failed", e>>>>]
                    /\ UNCHANGED <<qps, qp_table, t_qp>>
                 \/ /\ kernel_accepts(qps[q], new)
                    /\ trace' = [trace EXCEPT ![t] = <<<<"cmd_modify_qp", q>>>>]
                    /\ qps' = [qps EXCEPT ![q] =
                                 modify_qp_rtr_db(modified(@, new), new)]
                    /\ IF new = "RESET"
                       THEN /\ t_qp' = [t_qp EXCEPT ![t] = q]
                            /\ Goto(t, "md_recv")
                       ELSE /\ Finish(t, "OK")
                            /\ UNCHANGED t_qp
                    /\ UNCHANGED qp_table
    /\ UNCHANGED <<tdvars, pdvars, ctxvars, cqobjs, cqvars, qp_live,
                   srq_live, srqs, wq_live, wqs, k_live, uidx_table,
                   srq_table, qp_table_mutex, srq_table_mutex, t_obj>>

\* mlx5_modify_qp, lines 2096-2099: mlx5_cq_clean takes the lock of the
\* receive CQ
modify_qp_clean_recv(t) ==
    /\ pc[t] = "md_recv"
    /\ LET qp == qps[t_qp[t]] IN
       IF qp.recv_cq # NULL
       THEN /\ cq_lock[qp.recv_cq] = NULL
            /\ cq_cqes' = mlx5_cq_clean(cq_cqes, qp.recv_cq, qp.rsn, qp.srq)
            /\ trace' = [trace EXCEPT ![t] = Append(@, <<"clean", qp.recv_cq>>)]
       ELSE UNCHANGED <<cq_cqes, trace>>
    /\ Goto(t, "md_send")
    /\ UNCHANGED <<op, tdvars, pdvars, ctxvars, cqobjs, cq_cqn, cq_lock,
                   objvars, tblvars, t_qp, t_obj>>

\* mlx5_modify_qp, lines 2100-2108: the send CQ when it is another CQ,
\* then the cursors and the doorbell record
modify_qp_clean_send(t) ==
    /\ pc[t] = "md_send"
    /\ LET q == t_qp[t]
           qp == qps[q]
       IN
       /\ IF qp.send_cq # qp.recv_cq /\ qp.send_cq # NULL
          THEN /\ cq_lock[qp.send_cq] = NULL
               /\ cq_cqes' = mlx5_cq_clean(cq_cqes, qp.send_cq, qp.rsn, NULL)
               /\ trace' = [trace EXCEPT ![t] =
                              Append(@, <<"clean", qp.send_cq>>)]
          ELSE UNCHANGED <<cq_cqes, trace>>
       /\ qps' = [qps EXCEPT ![q] =
                    modify_qp_reset_db(mlx5_init_qp_indices(@))]
    /\ Finish(t, "OK")
    /\ UNCHANGED <<op, tdvars, pdvars, ctxvars, cqobjs, cq_cqn, cq_lock,
                   qp_live, srq_live, srqs, wq_live, wqs, k_live, tblvars,
                   t_qp, t_obj>>

\* one thread domain allocated by mlx5_alloc_td on a fresh context
InitTdOne ==
    /\ t_td = [t \in Threads |-> NULL]
    /\ t_idx = [t \in Threads |-> -1]
    /\ count_dyn_bfregs = [i \in Slots |-> IF i = 0 THEN 1 ELSE 0]
    /\ bfs_uar = [g \in Groups |-> IF g = 0 THEN mmap_addr(1) ELSE NULL]
    /\ bfs_reg = [i \in Slots |->
                    IF i = 0 THEN bf_reg_addr(mmap_addr(1), 0) ELSE NULL]
    /\ next_page = 1
    /\ last_get = 0
    /\ dyn_bfregs_mutex = NULL
    /\ td_live = {Min(TdIds)}
    /\ td_bf = [d \in TdIds |-> IF d = Min(TdIds) THEN 0 ELSE -1]
    /\ td_refcount = [d \in TdIds |-> IF d = Min(TdIds) THEN 1 ELSE 0]

\* a context with one protection domain, one thread domain and the CQs
InitQP ==
    /\ InitTh /\ InitTdOne /\ InitPdOne
    /\ cqe_version \in {0, 1}
    /\ InitCtx
    /\ InitCqs
    /\ InitQpVars

\* --------------------------- create_cq, mlx5_resize_cq, mlx5_destroy_cq

CqVerbs == {"create_cq", "mlx5_resize_cq", "mlx5_destroy_cq"}

\* thread u is inside a CQ verb called for CQ c
InCqVerb(u, c) ==
    /\ pc[u] \notin {"idle", "done"}
    /\ op[u].name \in CqVerbs
    /\ op[u].arg.cq = c

\* the CQ of the verb thread t is in
t_cq(t) == op[t].arg.cq

\* the capacities asked for: zero and negative ones are turned down
CqeRequests == {-1, 1, 3}

\* lines 786-789: the buffer that is not the active one
other_buf(active) == IF active = "buf_a" THEN "buf_b" ELSE "buf_a"

\* mlx5_alloc_cq_buf / mlx5_free_cq_buf on one of the two buffers of a CQ
cq_buf_set(cq, buf, allocated) ==
    IF buf = "buf_a" THEN [cq EXCEPT !.buf_a = allocated]
    ELSE [cq EXCEPT !.buf_b = allocated]

cq_buf_allocated(cq, buf) ==
    IF buf = "buf_a" THEN cq.buf_a
    ELSE IF buf = "buf_b" THEN cq.buf_b
    ELSE FALSE

\* a NULL buffer pointer is dereferenced: the process takes a fault
Fault(t) ==
    /\ pc' = [pc EXCEPT ![t] = "fault"]
    /\ UNCHANGED ret

NoFault == \A t \in Threads : pc[t] # "fault"

FreeCqIds == {c \in CqIds : c \notin cq_live /\ \A u \in Threads : ~InCqVerb(u, c)}

\* the largest CQ create_cq accepts, line 610
MaxNcqe == 16777216

\* the argument checks of create_cq made before anything is allocated,
\* lines 562-587 and 609-614, and mlx5_create_cq's cqe <= 0: the errno of
\* the check that turns the request down, "OK" when none does
create_cq_validate(cqe, mask) ==
    IF cqe <= 0 THEN "EINVAL"
    ELSE IF mask \in {"bad_comp_mask", "bad_flags"} THEN "EINVAL"
    ELSE IF mask = "bad_wc_flags" THEN "ENOTSUP"
    ELSE IF align_queue_size(cqe + 1) > MaxNcqe THEN "EINVAL"
    ELSE "OK"

\* create_cq, lines 547-713, for the CQ the allocator hands out; mask
\* tells which of comp_mask, flags, wc_flags or the vendor attributes
\* carries an unsupported bit, "ok" when none does
create_cq_attr(t, cqe, mask) ==
    /\ NoFault
    /\ FreeCqIds # {}
    /\   LET c == Min(FreeCqIds) IN
         /\ Call(t, "create_cq", [cq |-> c, cqe |-> cqe, mask |-> mask])
         /\ IF create_cq_validate(cqe, mask) # "OK"
            THEN /\ Finish(t, create_cq_validate(cqe, mask))
                 /\ UNCHANGED <<cq_live, mcq, cq_lock, trace>>
            ELSE IF mask = "bad_dv_attr"          \* lines 645-688, err_db
            THEN /\ trace' = [trace EXCEPT ![t] =
                                <<<<"alloc_buf", c>>, <<"alloc_db", c>>,
                                  <<"free_db", c>>, <<"free_buf", c>>,
                                  <<"free", c>>>>]
                 /\ Finish(t, "EINVAL")
                 /\ UNCHANGED <<cq_live, mcq, cq_lock>>
            ELSE \/ /\ Finish(t, "NULL")          \* calloc, buffer, dbrec
                    /\ UNCHANGED <<cq_live, mcq, cq_lock, trace>>
                 \/ /\ \E e \in KernelErrnos :    \* lines 693-699, err_db
                         trace' = [trace EXCEPT ![t] =
                                     <<<<"alloc_buf", c>>, <<"alloc_db", c>>,
                                       <<"cmd_create_cq", c>>,
                                       <<"cmd_failed", e>>,
                                       <<"free_db", c>>, <<"free_buf", c>>,
                                       <<"free", c>>>>]
                    /\ Finish(t, "NULL")
                    /\ UNCHANGED <<cq_live, mcq, cq_lock>>
                 \/ /\ cq_live' = cq_live \cup {c}
                    /\ mcq' = [mcq EXCEPT ![c] = created_cq(cqe)]
                    /\ cq_lock' = [cq_lock EXCEPT ![c] = NULL]
                    /\ trace' = [trace EXCEPT ![t] =
                                   <<<<"alloc_buf", c>>, <<"alloc_db", c>>,
                                     <<"cmd_create_cq", c>>>>]
                    /\ Finish(t, "OK")
    /\ UNCHANGED <<tdvars, pdvars, ctxvars, cq_cqn, cq_cqes, objvars,
                   tblvars, t_qp, t_obj>>

\* create_cq called with supported masks and flags
create_cq(t) == \E cqe \in CqeRequests : create_cq_attr(t, cqe, "ok")

\* application code destroys a CQ no other thread is using
CqDestroyable(c) == c \in cq_live /\ \A u \in Threads : ~InCqVerb(u, c)

\* mlx5_resize_cq, lines 773-782
mlx5_resize_cq(t) ==
    /\ NoFault
    /\ \E c \in cq_live, cqe \in CqeRequests :
         /\ \A u \in Threads :
              InCqVerb(u, c) => op[u].name = "mlx5_resize_cq"
         /\ Call(t, "mlx5_resize_cq", [cq |-> c, cqe |-> cqe])
         /\ IF cqe < 0 \/ cqe * 64 > INT_MAX
            THEN Finish(t, "EINVAL")
            ELSE Goto(t, "rz_lock")
    /\ UNCHANGED <<trace, tdvars, pdvars, qpvars>>

\* lines 784-795: take the CQ lock, point resize_buf at the spare buffer;
\* a request for the capacity the CQ has ends here
resize_cq_lock(t) ==
    /\ NoFault
    /\ pc[t] = "rz_lock"
    /\ cq_lock[t_cq(t)] = NULL
    /\ LET c == t_cq(t)
           cqe == align_queue_size(op[t].arg.cqe + 1)
       IN
       IF cqe = mcq[c].cqe + 1
       THEN /\ mcq' = [mcq EXCEPT ![c].resize_buf = NoBuf]
            /\ Finish(t, "OK")
            /\ UNCHANGED cq_lock
       ELSE /\ mcq' = [mcq EXCEPT ![c].resize_buf =
                                     other_buf(mcq[c].active_buf)]
            /\ cq_lock' = [cq_lock EXCEPT ![c] = t]
            /\ Goto(t, "rz_alloc")
    /\ UNCHANGED <<op, trace, tdvars, pdvars, ctxvars, cq_live, cq_cqn,
                   cq_cqes, objvars, tblvars, t_qp, t_obj>>

\* lines 798-806: mlx5_alloc_cq_buf on cq->resize_buf
resize_cq_alloc(t) ==
    /\ NoFault
    /\ pc[t] = "rz_alloc"
    /\ LET c == t_cq(t) IN
       IF mcq[c].resize_buf = NoBuf
       THEN /\ Fault(t)
            /\ UNCHANGED <<mcq, cq_lock, trace>>
       ELSE \/ /\ mcq' = [mcq EXCEPT ![c].resize_buf = NoBuf]
               /\ cq_lock' = [cq_lock EXCEPT ![c] = NULL]
               /\ Finish(t, "ENOMEM")
               /\ UNCHANGED trace
            \/ /\ mcq' = [mcq EXCEPT ![c] =
                            cq_buf_set(@, mcq[c].resize_buf, TRUE)]
               /\ trace' = [trace EXCEPT ![t] =
                              Append(@, <<"alloc_buf", mcq[c].resize_buf>>)]
               /\ Goto(t, "rz_cmd")
               /\ UNCHANGED cq_lock
    /\ UNCHANGED <<op, tdvars, pdvars, ctxvars, cq_live, cq_cqn,
                   cq_cqes, objvars, tblvars, t_qp, t_obj>>

\* lines 808-814: the kernel resize command on the buffer resize_buf
\* points at; err is kept in ret until the call returns
resize_cq_cmd(t) ==
    /\ NoFault
    /\ pc[t] = "rz_cmd"
    /\ IF mcq[t_cq(t)].resize_buf = NoBuf
       THEN Fault(t)
       ELSE \/ \E e \in KernelErrnos :
                 /\ pc' = [pc EXCEPT ![t] = "rz_out_buf"]
                 /\ ret' = [ret EXCEPT ![t] = e]
            \/ Goto(t, "rz_copy")
    /\ UNCHANGED <<op, trace, tdvars, pdvars, qpvars>>

\* out_buf and out, lines 824-830
resize_cq_out_buf(t) ==
    /\ NoFault
    /\ pc[t] = "rz_out_buf"
    /\ LET c == t_cq(t) IN
       IF mcq[c].resize_buf = NoBuf
       THEN /\ Fault(t)
            /\ UNCHANGED <<mcq, cq_lock, trace>>
       ELSE /\ mcq' = [mcq EXCEPT ![c] =
                         [cq_buf_set(@, mcq[c].resize_buf, FALSE)
                            EXCEPT !.resize_buf = NoBuf]]
            /\ trace' = [trace EXCEPT ![t] =
                           Append(@, <<"free_buf", mcq[c].resize_buf>>)]
            /\ cq_lock' = [cq_lock EXCEPT ![c] = NULL]
            /\ pc' = [pc EXCEPT ![t] = "done"]
            /\ UNCHANGED ret
    /\ UNCHANGED <<op, tdvars, pdvars, ctxvars, cq_live, cq_cqn,
                   cq_cqes, objvars, tblvars, t_qp, t_obj>>

\* line 816: mlx5_cq_resize_copy_cqes reads both buffers
resize_cq_copy(t) ==
    /\ NoFault
    /\ pc[t] = "rz_copy"
    /\ IF mcq[t_cq(t)].resize_buf = NoBuf \/ mcq[t_cq(t)].active_buf = NoBuf
       THEN Fault(t)
       ELSE Goto(t, "rz_commit")
    /\ UNCHANGED <<op, trace, tdvars, pdvars, qpvars>>

\* lines 817-820: free the active buffer, make the resize buffer the
\* active one, set the capacity, release the CQ lock
resize_cq_commit(t) ==
    /\ NoFault
    /\ pc[t] = "rz_commit"
    /\ LET c == t_cq(t) IN
       IF mcq[c].active_buf = NoBuf
       THEN /\ Fault(t)
            /\ UNCHANGED <<mcq, cq_lock, trace>>
       ELSE /\ mcq' = [mcq EXCEPT ![c] =
                         [cq_buf_set(@, mcq[c].active_buf, FALSE)
                            EXCEPT !.active_buf = mcq[c].resize_buf,
                                   !.cqe =
                                      align_queue_size(op[t].arg.cqe + 1) - 1]]
            /\ trace' = [trace EXCEPT ![t] =
                           Append(@, <<"free_buf", mcq[c].active_buf>>)]
            /\ cq_lock' = [cq_lock EXCEPT ![c] = NULL]
            /\ Goto(t, "rz_clear")
    /\ UNCHANGED <<op, tdvars, pdvars, ctxvars, cq_live, cq_cqn,
                   cq_cqes, objvars, tblvars, t_qp, t_obj>>

\* lines 821-822, after the lock has been released: cq->resize_buf = NULL
resize_cq_clear(t) ==
    /\ NoFault
    /\ pc[t] = "rz_clear"
    /\ mcq' = [mcq EXCEPT ![t_cq(t)].resize_buf = NoBuf]
    /\ Finish(t, "OK")
    /\ UNCHANGED <<op, trace, tdvars, pdvars, ctxvars, cq_live, cqvars,
                   objvars, tblvars, t_qp, t_obj>>

\* a CQ verb returns to the application of a process that is running
cq_return(t) == NoFault /\ Return(t)

\* mlx5_destroy_cq, lines 833-847
mlx5_destroy_cq(t) ==
    /\ NoFault
    /\ \E c \in CqIds :
         /\ CqDestroyable(c)
         /\ Call(t, "mlx5_destroy_cq", [cq |-> c, cqe |-> 0])
         /\ \/ \E e \in KernelErrnos :
                 /\ Finish(t, e)
                 /\ trace' = [trace EXCEPT ![t] =
                                <<<<"cmd_destroy_cq", c>>, <<"cmd_failed", e>>>>]
                 /\ UNCHANGED <<cq_live, mcq>>
            \/ /\ mcq[c].active_buf = NoBuf
               /\ trace' = [trace EXCEPT ![t] =
                              <<<<"cmd_destroy_cq", c>>, <<"free_db", c>>>>]
               /\ Fault(t)
               /\ UNCHANGED <<cq_live, mcq>>
            \/ /\ mcq[c].active_buf # NoBuf
               /\ trace' = [trace EXCEPT ![t] =
                              <<<<"cmd_destroy_cq", c>>, <<"free_db", c>>,
                                <<"free_buf", mcq[c].active_buf>>,
                                <<"free", c>>>>]
               /\ cq_live' = cq_live \ {c}
               /\ mcq' = [mcq EXCEPT ![c] = NoCq]
               /\ Finish(t, "OK")
    /\ UNCHANGED <<tdvars, pdvars, ctxvars, cqvars, objvars, tblvars,
                   t_qp, t_obj>>

\* ------------------------------------------------------- specifications

\* the dedicated-BF allocator under concurrent thread-domain verbs
NextBF ==
    \E t \in Threads :
        \/ mlx5_alloc_td(t)
        \/ attach_get_bfreg(t)
        \/ attach_lock_uar(t)
        \/ attach_map_uar(t)
        \/ attach_set_reg(t)
        \/ attach_out(t)
        \/ mlx5_dealloc_td(t)
        \/ dealloc_td_put(t)
        \/ Return(t)

SpecBF == Init /\ [][NextBF]_vars

\* thread domains, protection domains and parent domains
NextPD ==
    \E t \in {Min(Threads)} :
        \/ mlx5_alloc_td(t)
        \/ attach_get_bfreg(t)
        \/ attach_lock_uar(t)
        \/ attach_map_uar(t)
        \/ attach_set_reg(t)
        \/ attach_out(t)
        \/ mlx5_dealloc_td(t)
        \/ dealloc_td_put(t)
        \/ mlx5_alloc_pd(t)
        \/ mlx5_alloc_parent_domain(t)
        \/ mlx5_free_pd_parent(t)
        \/ mlx5_free_pd(t)
        \/ Return(t)

SpecPD == Init /\ [][NextPD]_vars

\* the two threads of a concurrent destroy
Destroyers == {t \in Threads : t <= Min(Threads) + 1}

InitCQ == InitObjects(FALSE)

\* QPs destroyed by two concurrent threads while the device completes
\* work requests
NextCQ ==
    \/ HwComplete
    \/ \E t \in Destroyers :
        \/ mlx5_destroy_qp(t)
        \/ destroy_qp_lock_cqs(t)
        \/ destroy_qp_lock_second(t)
        \/ destroy_qp_clean(t)
        \/ Return(t)

SpecCQ == InitCQ /\ [][NextCQ]_vars

InitSC == InitObjects(TRUE)

\* QPs, an SRQ and a receive work queue destroyed one after the other
\* while the device completes work requests
NextSC ==
    \/ HwComplete
    \/ \E t \in {Min(Threads)} :
        \/ mlx5_destroy_qp(t)
        \/ destroy_qp_lock_cqs(t)
        \/ destroy_qp_lock_second(t)
        \/ destroy_qp_clean(t)
        \/ mlx5_destroy_srq(t)
        \/ destroy_srq_cmd(t)
        \/ mlx5_destroy_wq(t)
        \/ destroy_wq_clean(t)
        \/ Return(t)

SpecSC == InitSC /\ [][NextSC]_vars

\* QPs of every kind created and destroyed on protection domains and
\* parent domains, by one thread
NextQP ==
    \E t \in {Min(Threads)} :
        \/ mlx5_alloc_parent_domain(t)
        \/ mlx5_free_pd_parent(t)
        \/ create_qp(t)
        \/ mlx5_destroy_qp(t)
        \/ destroy_qp_lock_cqs(t)
        \/ destroy_qp_lock_second(t)
        \/ destroy_qp_clean(t)
        \/ Return(t)

SpecQP == InitQP /\ [][NextQP]_vars

\* the two threads that work on the CQs
CqCallers == {t \in Threads : t <= Min(Threads) + 1}

\* a context without completion queues
InitRZ ==
    /\ InitTh /\ InitTd /\ InitPd
    /\ cqe_version = 0
    /\ InitCtx
    /\ cq_live = {}
    /\ mcq = [c \in CqIds |-> NoCq]
    /\ InitQpVars

\* CQs created, resized and destroyed by two threads; the run ends when
\* the process has taken a fault
NextRZ ==
    \E t \in CqCallers :
        \/ create_cq(t)
        \/ mlx5_resize_cq(t)
        \/ resize_cq_lock(t)
        \/ resize_cq_alloc(t)
        \/ resize_cq_cmd(t)
        \/ resize_cq_out_buf(t)
        \/ resize_cq_copy(t)
        \/ resize_cq_commit(t)
        \/ resize_cq_clear(t)
        \/ mlx5_destroy_cq(t)
        \/ cq_return(t)

SpecRZ == InitRZ /\ [][NextRZ]_vars

\* the thread that creates queues of many sizes
SizingCallers == {Min(Threads)}

\* adapters: the usual limits, and an adapter of small queues
CtxChoices ==
    {AdapterCtx,
     [AdapterCtx EXCEPT !.max_send_wqebb = 1024, !.max_recv_wr = 16]}

\* a context of one of the adapters with its CQs, one SRQ and RC QPs
\* created earlier: either every QP but one and the receive work queue
\* exist, or every QP exists and the receive work queue does not
InitSZ ==
    /\ InitTh /\ InitTdOne /\ InitPdOne
    /\ cqe_version \in {0, 1}
    /\ mctx \in CtxChoices
    /\ InitCqs
    /\ cq_cqn = [c \in CqIds |-> c]
    /\ cq_lock = [c \in CqIds |-> NULL]
    /\ cq_cqes = [c \in CqIds |-> <<>>]
    /\ qp_live \in {QpIds, QpIds \ {Max(QpIds)}}
    /\ qps = [q \in QpIds |->
                IF q \in qp_live
                THEN created_qp("RC", "none", Min(CqIds), Max(CqIds), NULL,
                                NULL, nth_uidx(q + 1), q, FALSE,
                                default_sizes("RC", "none"))
                ELSE NoQp]
    /\ srq_live = SrqIds
    /\ srqs = [x \in SrqIds |-> created_xsrq(Min(CqIds), nth_uidx(1), x)]
    /\ wq_live = IF qp_live = QpIds THEN {} ELSE WqIds
    /\ wqs = [w \in WqIds |->
                IF w \in wq_live
                THEN created_rwq(Max(CqIds), nth_uidx(Cardinality(QpIds) + 1),
                                 w, default_rwq_sizes)
                ELSE NoWq]
    /\ k_live = {SrqRef(x) : x \in SrqIds} \cup {QpRef(q) : q \in qp_live}
                \cup {WqRef(w) : w \in wq_live}
    /\ uidx_table = [i \in UidxIds |->
                       IF cqe_version = 0 THEN NoRef
                       ELSE IF i = 0 THEN SrqRef(Min(SrqIds))
                       ELSE IF i \in qp_live THEN QpRef(i)
                       ELSE IF i = Cardinality(QpIds) /\ wq_live # {}
                       THEN WqRef(Min(WqIds))
                       ELSE NoRef]
    /\ qp_table = [n \in Qpns |->
                     IF cqe_version = 0 /\ n \in qp_live
                     THEN QpRef(n) ELSE NoRef]
    /\ srq_table = [n \in SrqIds |->
                      IF cqe_version = 0 THEN SrqRef(n) ELSE NoRef]
    /\ qp_table_mutex = NULL
    /\ srq_table_mutex = NULL
    /\ t_qp = [t \in Threads |-> NULL]
    /\ t_obj = [t \in Threads |-> NULL]

\* QPs and receive work queues of many sizes are created
NextSZ ==
    \E t \in SizingCallers :
        \/ create_qp_sized(t)
        \/ create_wq(t)
        \/ Return(t)

SpecSZ == InitSZ /\ [][NextSZ]_vars

ModifyCallers == {Min(Threads)}

\* work requests posted and completed: the cursors and the doorbell record
\* of a QP that has seen ns sends and nr receives
posted(qp, ns, nr) ==
    [qp EXCEPT !.sq.head = ns, !.sq.tail = ns \div 2,
               !.rq.head = nr, !.rq.tail = nr \div 2,
               !.dbr = [rcv |-> nr, snd |-> ns]]

\* a context with one RC QP on any pair of CQs, idle or in use, its
\* completions waiting in its CQs or polled
InitMD ==
    /\ InitTh /\ InitTdOne /\ InitPdOne
    /\ cqe_version \in {0, 1}
    /\ InitCtx
    /\ InitCqs
    /\ cq_cqn = [c \in CqIds |-> c]
    /\ cq_lock = [c \in CqIds |-> NULL]
    /\ qp_live = {Min(QpIds)}
    /\ \E s \in CqIds, r \in CqIds, ns \in {0, 2}, nr \in {0, 2},
          waiting \in BOOLEAN :
         /\ qps = [q \in QpIds |->
                     IF q = Min(QpIds)
                     THEN posted(created_qp("RC", "none", s, r, NULL, NULL,
                                            nth_uidx(1), q, FALSE,
                                            default_sizes("RC", "none")),
                                 ns, nr)
                     ELSE NoQp]
         /\ cq_cqes = [c \in CqIds |->
                         IF waiting /\ c \in {s, r}
                         THEN <<hw_cqe(QpRef(Min(QpIds)))>> ELSE <<>>]
    /\ srq_live = {}
    /\ srqs = [x \in SrqIds |-> NoSrq]
    /\ wq_live = {}
    /\ wqs = [w \in WqIds |-> NoWq]
    /\ k_live = {QpRef(Min(QpIds))}
    /\ uidx_table = [i \in UidxIds |->
                       IF cqe_version # 0 /\ i = 0
                       THEN QpRef(Min(QpIds)) ELSE NoRef]
    /\ qp_table = [n \in Qpns |->
                     IF cqe_version = 0 /\ n = Min(QpIds)
                     THEN QpRef(n) ELSE NoRef]
    /\ srq_table = [n \in SrqIds |-> NoRef]
    /\ qp_table_mutex = NULL
    /\ srq_table_mutex = NULL
    /\ t_qp = [t \in Threads |-> NULL]
    /\ t_obj = [t \in Threads |-> NULL]

\* QPs created and modified by one thread
NextMD ==
    \E t \in ModifyCallers :
        \/ create_qp(t)
        \/ mlx5_modify_qp(t)
        \/ modify_qp_clean_recv(t)
        \/ modify_qp_clean_send(t)
        \/ Return(t)

SpecMD == InitMD /\ [][NextMD]_vars

ValidationCallers == {Min(Threads)}

\* QP requests an argument check of create_qp or the sizing turns down,
\* and one it accepts
ValidationQpAttrs ==
    [kind : {"BAD_COMP_MASK", "TSO_NOT_RAW", "DRIVER_NO_DV",
             "SOURCE_QPN_NOT_UD", "BAD_DV_COMP_MASK", "DC_NOT_DRIVER",
             "BAD_DV_FLAGS", "DRIVER_BAD_DC", "RC", "DCT"},
     send_cq : {Min(CqIds)}, recv_cq : {Min(CqIds)}, pd : {NULL},
     cap : {DefaultCap}, srq : {NULL}, wq_sig : {FALSE}]
    \cup [kind : {"RC"}, send_cq : {Min(CqIds)}, recv_cq : {Min(CqIds)},
          pd : {NULL},
          cap : {[DefaultCap EXCEPT !.max_send_wr = mctx.max_send_wqebb + 1],
                 [DefaultCap EXCEPT !.max_recv_sge = 40]},
          srq : {NULL}, wq_sig : {FALSE}]

\* receive work queue requests create_wq turns down, and one it accepts
ValidationWqAttrs ==
    [wq_type : {"RQ"}, cq : {Min(CqIds)}, max_wr : {0, 1}, max_sge : {1, 40},
     mprq : {"none", "bad_mask", "bad_stride"}, wq_sig : {FALSE}]
    \cup [wq_type : {"OTHER"}, cq : {Min(CqIds)}, max_wr : {1},
          max_sge : {1}, mprq : {"none"}, wq_sig : {FALSE}]

\* CQ requests create_cq turns down, and some it accepts
ValidationCqes == {0, 1, MaxNcqe}
ValidationCqMasks ==
    {"ok", "bad_comp_mask", "bad_flags", "bad_wc_flags", "bad_dv_attr"}

\* the creation verbs called with those requests
create_cq_any(t) ==
    \E cqe \in ValidationCqes, mask \in ValidationCqMasks :
        create_cq_attr(t, cqe, mask)

create_qp_any(t) == \E attr \in ValidationQpAttrs : create_qp_attr(t, attr)

create_wq_any(t) == \E attr \in ValidationWqAttrs : create_wq_attr(t, attr)

\* a fresh context of either indexing mode with one CQ
InitVL ==
    /\ InitTh /\ InitTd /\ InitPd
    /\ cqe_version \in {0, 1}
    /\ InitCtx
    /\ cq_live = {Min(CqIds)}
    /\ mcq = [c \in CqIds |-> IF c \in cq_live THEN created_cq(1) ELSE NoCq]
    /\ InitQpVars

\* thread domains, CQs, QPs and receive work queues are asked for with
\* valid and with invalid arguments
NextVL ==
    \E t \in ValidationCallers :
        \/ mlx5_alloc_td(t)
        \/ attach_get_bfreg(t)
        \/ attach_lock_uar(t)
        \/ attach_map_uar(t)
        \/ attach_set_reg(t)
        \/ attach_out(t)
        \/ create_cq_any(t)
        \/ create_qp_any(t)
        \/ create_wq_any(t)
        \/ Return(t)

SpecVL == InitVL /\ [][NextVL]_vars

\* the threads that create and destroy QPs and SRQs side by side
LockCallers == {Min(Threads), Max(Threads)}

\* a context with or without user indexes, its CQs, one protection domain
\* and one RC QP created earlier
InitLK ==
    /\ InitTh /\ InitTdOne /\ InitPdOne
    /\ cqe_version \in {0, 1}
    /\ InitCtx
    /\ InitCqs
    /\ cq_cqn = [c \in CqIds |-> c]
    /\ cq_lock = [c \in CqIds |-> NULL]
    /\ cq_cqes = [c \in CqIds |-> <<>>]
    /\ qp_live = {Min(QpIds)}
    /\ qps = [q \in QpIds |->
                IF q \in qp_live
                THEN created_qp("RC", "none", Min(CqIds), Max(CqIds), NULL,
                                NULL, nth_uidx(q), q, FALSE,
                                default_sizes("RC", "none"))
                ELSE NoQp]
    /\ srq_live = {}
    /\ srqs = [x \in SrqIds |-> NoSrq]
    /\ wq_live = {}
    /\ wqs = [w \in WqIds |-> NoWq]
    /\ k_live = {QpRef(q) : q \in qp_live}
    /\ uidx_table = [i \in UidxIds |->
                       IF cqe_version # 0 /\ i + 1 \in qp_live
                       THEN QpRef(i + 1) ELSE NoRef]
    /\ qp_table = [n \in Qpns |->
                     IF cqe_version = 0 /\ n \in qp_live
                     THEN QpRef(n) ELSE NoRef]
    /\ srq_table = [n \in SrqIds |-> NoRef]
    /\ qp_table_mutex = NULL
    /\ srq_table_mutex = NULL
    /\ t_qp = [t \in Threads |-> NULL]
    /\ t_obj = [t \in Threads |-> NULL]

\* QPs and SRQs are created and destroyed by several threads
NextLK ==
    \E t \in LockCallers :
        \/ mlx5_create_srq(t)
        \/ create_srq_cmd(t)
        \/ create_srq_store(t)
        \/ mlx5_create_srq_ex(t)
        \/ create_srq_ex_cmd(t)
        \/ create_srq_ex_store(t)
        \/ mlx5_destroy_srq(t)
        \/ destroy_srq_cmd(t)
        \/ create_qp_begin(t)
        \/ create_qp_locked_cmd(t)
        \/ create_qp_store_unlock(t)
        \/ mlx5_destroy_qp(t)
        \/ destroy_qp_lock_cqs(t)
        \/ destroy_qp_lock_second(t)
        \/ destroy_qp_clean(t)
        \/ Return(t)

SpecLK == InitLK /\ [][NextLK]_vars

\* ------------------------------------------------------------- claims

\* C1: under any interleaving of mlx5_alloc_td and mlx5_dealloc_td no two
\* live thread domains hold the same dynamic BF slot, so at most
\* NumDynBfregs thread domains are live and every counter is 0 or 1.
C1_ExclusiveSlots ==
    /\ \A i \in Slots : count_dyn_bfregs[i] \in {0, 1}
    /\ \A d1, d2 \in td_live : d1 # d2 => td_bf[d1] # td_bf[d2]
    /\ \A d \in td_live : td_bf[d] \in Slots /\ count_dyn_bfregs[td_bf[d]] = 1
    /\ Cardinality(td_live) <= NumDynBfregs

\* every slot is held by a live thread domain while another thread is
\* inside mlx5_alloc_td
C1_Witness ==
    /\ Cardinality(td_live) = NumDynBfregs
    /\ \E t \in Threads : pc[t] = "get_bfreg"

\* C6: mlx5_dealloc_td on a thread domain that a live parent domain still
\* references returns EBUSY and changes nothing.
C6_DeallocTdBusy ==
    [][\A t \in Threads, d \in TdIds :
         ( /\ Idle(t)
           /\ op'[t] = [name |-> "mlx5_dealloc_td", arg |-> d]
           /\ \E m \in par_live : par_td[m] = d )
         => ( /\ pc'[t] = "done"
              /\ ret'[t] = "EBUSY"
              /\ UNCHANGED <<tdvars, pdvars>> )]_vars

C6_Witness ==
    \E t \in Threads :
        /\ pc[t] = "done"
        /\ op[t].name = "mlx5_dealloc_td"
        /\ ret[t] = "EBUSY"
        /\ op[t].arg \in td_live
        /\ count_dyn_bfregs[td_bf[op[t].arg]] = 1
        /\ \E m \in par_live : par_td[m] = op[t].arg

\* C8: mlx5_free_pd on a protection domain that a live parent domain still
\* wraps returns EBUSY, issues no kernel command and frees nothing.
C8_FreePdBusy ==
    [][\A t \in Threads, p \in PdIds :
         ( /\ Idle(t)
           /\ op'[t] = [name |-> "mlx5_free_pd", arg |-> <<"pd", p>>]
           /\ \E m \in par_live : par_pd[m] = p )
         => ( /\ pc'[t] = "done"
              /\ ret'[t] = "EBUSY"
              /\ trace'[t] = <<>>
              /\ UNCHANGED <<tdvars, pdvars>> )]_vars

C8_Witness ==
    \E t \in Threads :
        /\ pc[t] = "done"
        /\ op[t].name = "mlx5_free_pd"
        /\ op[t].arg[1] = "pd"
        /\ ret[t] = "EBUSY"
        /\ op[t].arg[2] \in pd_live
        /\ \E m \in par_live : par_pd[m] = op[t].arg[2]

\* C9: when every dynamic BF slot is in use, the acquisition inside
\* mlx5_alloc_td fails with ENOENT and leaves every counter and every
\* mapping as it was.
C9_NoSlotENOENT ==
    [][\A t \in Threads :
         ( /\ pc[t] = "get_bfreg"
           /\ pc'[t] # "get_bfreg"
           /\ \A i \in Slots : count_dyn_bfregs[i] # 0 )
         => ( /\ pc'[t] = "done"
              /\ ret'[t] = "ENOENT"
              /\ UNCHANGED <<count_dyn_bfregs, bfs_uar, bfs_reg, next_page,
                             td_live, td_bf, td_refcount>> )]_vars

C9_Witness ==
    \E t \in Threads :
        /\ pc[t] = "done"
        /\ op[t].name = "mlx5_alloc_td"
        /\ ret[t] = "ENOENT"
        /\ \A i \in Slots : count_dyn_bfregs[i] = 1

\* C10: when mlx5_mmap fails during the acquisition, the page group is left
\* recorded as unmapped, the acquisition fails, the slot taken by the call
\* has counter 0 again and is the slot, or follows the slot, that the next
\* scan returns.
C10_MmapFailureUnwinds ==
    [][\A t \in Threads :
         /\ ( pc[t] = "map_uar" /\ pc'[t] = "out" )
            => ( /\ bfs_uar'[uar_page_index(t_idx[t])] = NULL
                 /\ dyn_bfregs_mutex' = NULL
                 /\ UNCHANGED <<bfs_reg, next_page>> )
         /\ ( pc[t] = "out" /\ pc'[t] # "out" )
            => ( /\ pc'[t] = "done"
                 /\ ret'[t] = "MAP_FAILED"
                 /\ count_dyn_bfregs[t_idx[t]] = 1
                 /\ count_dyn_bfregs'[t_idx[t]] = 0
                 /\ FirstFreeSlot(count_dyn_bfregs') \in 0..t_idx[t]
                 /\ t_td[t] \notin td_live'
                 /\ bfs_reg'[t_idx[t]] = NULL )]_vars

\* a failed acquisition has returned and its slot is free and unmapped
C10_Witness ==
    \E t \in Threads :
        /\ pc[t] = "done"
        /\ ret[t] = "MAP_FAILED"
        /\ trace[t] = <<"mmap_failed">>
        /\ count_dyn_bfregs[t_idx[t]] = 0
        /\ bfs_uar[uar_page_index(t_idx[t])] = NULL

\* the verbs that destroy a completion-generating object
DestroyVerbs == {"mlx5_destroy_qp", "mlx5_destroy_srq", "mlx5_destroy_wq"}

DestroyedRef(o) ==
    IF o.name = "mlx5_destroy_qp" THEN QpRef(o.arg)
    ELSE IF o.name = "mlx5_destroy_srq" THEN SrqRef(o.arg)
    ELSE WqRef(o.arg)

Owned(cqes, ref) == SelectSeq(cqes, LAMBDA e : e.owner = ref)

\* C2: when mlx5_destroy_qp, mlx5_destroy_srq or mlx5_destroy_wq returns
\* success, no CQ holds a completion of the destroyed object any more.
C2_NoStaleCompletions ==
    [][\A t \in Threads :
         ( /\ pc[t] # "done"
           /\ pc'[t] = "done"
           /\ ret'[t] = "OK"
           /\ op'[t].name \in DestroyVerbs )
         => \A c \in CqIds : Owned(cq_cqes'[c], DestroyedRef(op'[t])) = <<>>]_vars

\* the CQ lock thread t is spinning on, if any
WaitsFor(t) ==
    IF pc[t] = "lock_cqs"
    THEN LET locks == mlx5_lock_cqs(qps[t_qp[t]].send_cq, qps[t_qp[t]].recv_cq)
         IN IF locks = <<>> THEN {} ELSE {locks[1]}
    ELSE IF pc[t] = "lock_second"
    THEN {mlx5_lock_cqs(qps[t_qp[t]].send_cq, qps[t_qp[t]].recv_cq)[2]}
    ELSE IF pc[t] = "wq_lock" THEN {wqs[t_obj[t]].cq}
    ELSE {}

\* thread t is between the kernel command and the return of
\* mlx5_destroy_qp
InDestroy(t) == pc[t] \in {"lock_cqs", "lock_second", "clean"}

\* C3: threads destroying QPs whose send and receive CQs are the same pair
\* in opposite roles never end up in a circular wait on CQ locks: there is
\* no set of threads each spinning on a CQ lock that a thread of the set
\* holds, and while destroys are under way one of them can take its next
\* step, so that all of them complete.
C3_NoCircularWait ==
    /\ \A S \in (SUBSET Threads) \ {{}} :
          ~ \A t \in S : \E c \in WaitsFor(t) : cq_lock[c] \in S
    /\ (\E t \in Threads : InDestroy(t))
          => \E t \in Threads :
                /\ InDestroy(t)
                /\ ENABLED ( \/ destroy_qp_lock_cqs(t)
                             \/ destroy_qp_lock_second(t)
                             \/ destroy_qp_clean(t) )

\* QP1 on (X, Y) and QP2 on (Y, X) are being destroyed at once; one thread
\* holds its first CQ lock and the other spins on that very lock
C3_Witness ==
    \E t1, t2 \in Threads :
        /\ t1 # t2
        /\ pc[t1] = "lock_second"
        /\ pc[t2] = "lock_cqs"
        /\ qps[t_qp[t1]].send_cq # qps[t_qp[t1]].recv_cq
        /\ qps[t_qp[t1]].send_cq = qps[t_qp[t2]].recv_cq
        /\ qps[t_qp[t1]].recv_cq = qps[t_qp[t2]].send_cq
        /\ \E c \in WaitsFor(t2) : cq_lock[c] = t1

\* C4: when the send CQ and the receive CQ of a QP are one CQ,
\* mlx5_destroy_qp locks it once, scans it once, leaving none of the QP's
\* completions, and unlocks it once, in that order.
C4_SharedCqOnce ==
    [][\A t \in Threads :
         ( /\ pc[t] = "clean"
           /\ pc'[t] # "clean"
           /\ qps[t_qp[t]].send_cq # NULL
           /\ qps[t_qp[t]].send_cq = qps[t_qp[t]].recv_cq )
         => LET c == qps[t_qp[t]].send_cq IN
            /\ Count(trace'[t], <<"lock", c>>) = 1
            /\ Count(trace'[t], <<"clean", c>>) = 1
            /\ Count(trace'[t], <<"unlock", c>>) = 1
            /\ IndexOf(trace'[t], <<"lock", c>>) < IndexOf(trace'[t], <<"clean", c>>)
            /\ IndexOf(trace'[t], <<"clean", c>>) < IndexOf(trace'[t], <<"unlock", c>>)
            /\ cq_lock[c] = t
            /\ cq_lock'[c] = NULL
            /\ Owned(cq_cqes'[c], QpRef(t_qp[t])) = <<>>]_vars

\* a destroy has returned whose single scan, of a locked CQ, dropped
\* completions and left those of another object in place
C4_Witness ==
    \E t \in Threads, c \in CqIds :
        /\ pc[t] = "done"
        /\ op[t].name = "mlx5_destroy_qp"
        /\ ret[t] = "OK"
        /\ Count(trace[t], <<"lock", c>>) = 1
        /\ \A i \in DOMAIN trace[t] : trace[t][i][1] = "clean" => trace[t][i][2] = c
        /\ \E i \in DOMAIN trace[t] :
             trace[t][i][1] = "nfreed" /\ trace[t][i][2] >= 2
        /\ cq_cqes[c] # <<>>

\* C5: the scans of mlx5_destroy_qp drop the entries that carry the QP's
\* resource number and no others; the completions of every other QP stay
\* in their CQ in their order.
C5_OthersKept ==
    [][\A t \in Threads :
         ( pc[t] = "clean" /\ pc'[t] # "clean" )
         => LET q == t_qp[t] IN
            \A c \in CqIds :
              /\ \A q2 \in qp_live \ {q} :
                   Owned(cq_cqes'[c], QpRef(q2)) = Owned(cq_cqes[c], QpRef(q2))
              /\ cq_cqes'[c] =
                   IF c \in {qps[q].send_cq, qps[q].recv_cq}
                   THEN SelectSeq(cq_cqes[c], LAMBDA e : cqe_rsn(e) # qps[q].rsn)
                   ELSE cq_cqes[c]]_vars

\* QP1 has been destroyed; its scan of CQ c dropped an entry and the two
\* completions of a live QP that uses c are still there
C5_Witness ==
    \E t \in Threads, c \in CqIds, q2 \in qp_live :
        /\ pc[t] = "done"
        /\ op[t].name = "mlx5_destroy_qp"
        /\ ret[t] = "OK"
        /\ c \in {qps[q2].send_cq, qps[q2].recv_cq}
        /\ \E i \in DOMAIN trace[t] :
             /\ trace[t][i] = <<"clean", c>>
             /\ trace[t][i + 1][1] = "nfreed"
             /\ trace[t][i + 1][2] >= 1
        /\ Len(Owned(cq_cqes[c], QpRef(q2))) >= 2

\* C7: mlx5_free_pd on a parent domain on which a live QP of any kind was
\* created returns EBUSY and leaves the parent domain, the reference it
\* holds on its protection domain and the one on its thread domain as they
\* were.
C7_FreeParentBusy ==
    [][\A t \in Threads, m \in ParIds :
         ( /\ Idle(t)
           /\ op'[t].name = "mlx5_free_pd"
           /\ op'[t].arg = <<"parent", m>>
           /\ \E q \in qp_live : qps[q].parent = m )
         => ( /\ pc'[t] = "done"
              /\ ret'[t] = "EBUSY"
              /\ UNCHANGED <<pdvars, td_refcount>> )]_vars

\* C11: whatever the interleaving of acquisitions and releases, the register
\* page of a page group is mapped successfully at most once: the number of
\* successful mlx5_mmap calls equals the number of groups recorded as
\* mapped, a recorded mapping is never replaced, and the groups' pages are
\* distinct.
C11_PageMappedOnce ==
    [][/\ next_page' = Cardinality({g \in Groups : bfs_uar'[g] # NULL})
       /\ \A g \in Groups : bfs_uar[g] # NULL => bfs_uar'[g] = bfs_uar[g]
       /\ \A g, h \in Groups :
            (bfs_uar'[g] # NULL /\ g # h) => bfs_uar'[g] # bfs_uar'[h]]_vars

\* every slot of one group is in use, each with its register on the one
\* page of the group, and one of them was released and acquired again
C11_Witness ==
    /\ \A i \in Slots : count_dyn_bfregs[i] = 1 /\ bfs_reg[i] # NULL
    /\ \E d1, d2 \in td_live :
         /\ d1 # d2
         /\ uar_page_index(td_bf[d1]) = uar_page_index(td_bf[d2])
    /\ \E d \in td_live : d > NumDynBfregs
    /\ next_page = Cardinality(Groups)

\* the slot handed out last has been released through mlx5_dealloc_td and
\* no slot has been handed out since
RoundTripPending ==
    /\ last_get \in Slots
    /\ count_dyn_bfregs[last_get] = 0
    /\ bfs_reg[last_get] # NULL

\* the acquisition of thread t returns slot last_get at once, with the
\* register address the slot already had, on the page already mapped
RoundTripSame(t) ==
    /\ pc'[t] = "done"
    /\ ret'[t] = "OK"
    /\ t_idx'[t] = last_get
    /\ td_bf'[t_td[t]] = last_get
    /\ bfs_reg'[last_get] = bfs_reg[last_get]
    /\ bfs_reg[last_get] =
           bf_reg_addr(bfs_uar[uar_page_index(last_get)], last_get)
    /\ UNCHANGED <<bfs_uar, next_page>>

\* C12 as stated: acquire, release, acquire with no other acquisition in
\* between returns the same slot index with the same register address on
\* the same mapped page.
C12_RoundTripAsStated ==
    [][\A t \in Threads :
         ( /\ pc[t] = "get_bfreg"
           /\ pc'[t] # "get_bfreg"
           /\ RoundTripPending )
         => RoundTripSame(t)]_vars

\* C12: acquire, release, acquire with no other acquisition in between, and
\* with no lower-numbered slot free at the second acquisition, returns the
\* same slot index with the same register address on the same mapped page;
\* a register address once set never changes.
C12_RoundTrip ==
    [][/\ \A t \in Threads :
            ( /\ pc[t] = "get_bfreg"
              /\ pc'[t] # "get_bfreg"
              /\ RoundTripPending
              /\ \A k \in Slots : k < last_get => count_dyn_bfregs[k] # 0 )
            => RoundTripSame(t)
       /\ \A i \in Slots : bfs_reg[i] # NULL => bfs_reg'[i] = bfs_reg[i]]_vars

\* a thread domain got the slot handed out last, a slot other than the
\* first, through the path that finds the register ready
C12_Witness ==
    \E t \in Threads :
        /\ pc[t] = "done"
        /\ op[t].name = "mlx5_alloc_td"
        /\ ret[t] = "OK"
        /\ trace[t] = <<"ready">>
        /\ t_idx[t] = last_get
        /\ last_get > 0
        /\ \A k \in Slots : k < last_get => count_dyn_bfregs[k] # 0

\* C13: when the kernel destroy command fails in mlx5_destroy_qp, the call
\* returns the kernel's error code as it came and changes nothing: no CQ is
\* locked or scanned, no table entry cleared, no buffer or doorbell record
\* freed, the parent domain's reference count is as before, the QP is still
\* there and the calling thread does not hold qp_table_mutex.
C13_DestroyQpKernelFailure ==
    [][\A t \in Threads, q \in QpIds, e \in KernelErrnos :
         ( /\ Idle(t)
           /\ op'[t] = [name |-> "mlx5_destroy_qp", arg |-> q]
           /\ <<"cmd_failed", e>> \in Elems(trace'[t]) )
         => ( /\ pc'[t] = "done"
              /\ ret'[t] = e
              /\ trace'[t] = <<<<"cmd_destroy_qp", q>>, <<"cmd_failed", e>>>>
              /\ qp_table_mutex' # t
              /\ UNCHANGED <<cqvars, objvars, tblvars, pdvars>> )]_vars

\* the destroy of a QP with buffers and a table entry, made on a parent
\* domain, has failed in the kernel
C13_Witness ==
    \E t \in Threads :
        /\ pc[t] = "done"
        /\ op[t].name = "mlx5_destroy_qp"
        /\ ret[t] = "EBUSY"
        /\ op[t].arg \in qp_live
        /\ QpRef(op[t].arg) \in k_live
        /\ qps[op[t].arg].db /\ qps[op[t].arg].buf
        /\ qps[op[t].arg].parent \in par_live
        /\ par_refcount[qps[op[t].arg].parent] = 2
        /\ cqe_version = 0
        /\ qp_table[qps[op[t].arg].qp_num] = QpRef(op[t].arg)
        /\ qp_table_mutex = NULL

\* the events named alloc and the events named free in a call's record
\* pair up
Released(tr, alloc, free) ==
    \A q \in QpIds \cup UidxIds :
        Count(tr, <<alloc, q>>) = Count(tr, <<free, q>>)

\* C14: when the kernel create command fails in create_qp, the call returns
\* NULL with everything it had set up released: the uidx entry it stored is
\* cleared, the doorbell record and the queue buffers are freed, the struct
\* is freed, qp_table_mutex is not held, no table or QP has changed and the
\* parent domain's reference count is as before.
C14_CreateQpKernelFailure ==
    [][\A t \in Threads, e \in KernelErrnos :
         ( /\ Idle(t)
           /\ op'[t].name = "create_qp"
           /\ <<"cmd_failed", e>> \in Elems(trace'[t]) )
         => ( /\ pc'[t] = "done"
              /\ ret'[t] = "NULL"
              /\ Released(trace'[t], "store_uidx", "clear_uidx")
              /\ Released(trace'[t], "alloc_db", "free_db")
              /\ Released(trace'[t], "alloc_buf", "free_buf")
              /\ Released(trace'[t], "mutex_lock", "mutex_unlock")
              /\ \E q \in QpIds :
                     trace'[t][Len(trace'[t])] = <<"free", q>>
              /\ qp_table_mutex' = NULL
              /\ UNCHANGED <<uidx_table, qp_table, srq_table, objvars,
                             pdvars>> )]_vars

\* the kernel command has failed for a QP that had stored a user index and
\* allocated buffers and a doorbell record, made on a parent domain
C14_Witness ==
    \E t \in Threads :
        /\ pc[t] = "done"
        /\ op[t].name = "create_qp"
        /\ op[t].arg.kind = "RC"
        /\ op[t].arg.pd \in par_live
        /\ ret[t] = "NULL"
        /\ <<"cmd_failed", "EIO">> \in Elems(trace[t])
        /\ \E i \in UidxIds :
             /\ <<"store_uidx", i>> \in Elems(trace[t])
             /\ <<"clear_uidx", i>> \in Elems(trace[t])
             /\ uidx_table[i] = NoRef
        /\ \E q \in QpIds : <<"free_db", q>> \in Elems(trace[t])
        /\ par_refcount[op[t].arg.pd] = 1

\* thread t is inside mlx5_resize_cq on CQ c
InResize(t, c) ==
    /\ pc[t] \notin {"idle", "done"}
    /\ op[t].name = "mlx5_resize_cq"
    /\ op[t].arg.cq = c

\* C15: a live CQ has exactly one active buffer: active_buf points at buf_a
\* or buf_b and that buffer is allocated; resize_buf is non-NULL only while
\* a mlx5_resize_cq call on the CQ is in progress, and the spare buffer is
\* allocated only then.
C15_OneActiveBuffer ==
    \A c \in cq_live :
        /\ mcq[c].active_buf \in {"buf_a", "buf_b"}
        /\ cq_buf_allocated(mcq[c], mcq[c].active_buf)
        /\ mcq[c].resize_buf # NoBuf => \E t \in Threads : InResize(t, c)
        /\ cq_buf_allocated(mcq[c], other_buf(mcq[c].active_buf))
              => \E t \in Threads : InResize(t, c)

\* ---------------------------------------------------------------- C16

IsPowerOfTwo(n) == \E k \in 0..30 : n = 2 ^ k

\* thread t has returned from a successful call of verb name
Succeeded(t, name) ==
    pc[t] = "done" /\ op[t].name = name /\ ret[t] = "OK"

\* the send queue of a QP created for a request with a send depth has a
\* power of two of slots, at least the depth
SqSlotsCoverDepth ==
    \A t \in Threads :
        Succeeded(t, "create_qp") /\ op[t].arg.cap.max_send_wr > 0
        => /\ IsPowerOfTwo(qps[t_qp[t]].sq.wqe_cnt)
           /\ qps[t_qp[t]].sq.wqe_cnt >= op[t].arg.cap.max_send_wr

\* the same for the receive queue of a QP created without an SRQ
RqSlotsCoverDepth ==
    \A t \in Threads :
        /\ Succeeded(t, "create_qp")
        /\ op[t].arg.cap.max_recv_wr > 0
        /\ op[t].arg.srq = NULL
        => /\ IsPowerOfTwo(qps[t_qp[t]].rq.wqe_cnt)
           /\ qps[t_qp[t]].rq.wqe_cnt >= op[t].arg.cap.max_recv_wr

\* the same for a receive work queue
RwqSlotsCoverDepth ==
    \A t \in Threads :
        Succeeded(t, "create_wq")
        => /\ IsPowerOfTwo(wqs[t_obj[t]].rq.wqe_cnt)
           /\ wqs[t_obj[t]].rq.wqe_cnt >= op[t].arg.max_wr

\* C16: every queue the sizing functions accept has a slot count that is a
\* power of two and at least the requested depth: the send queue and the
\* receive queue (without SRQ) of a QP, and a receive work queue
C16_SlotsCoverDepth ==
    SqSlotsCoverDepth /\ RqSlotsCoverDepth /\ RwqSlotsCoverDepth

\* ---------------------------------------------------------------- C17

\* thread t is called with a QP request whose receive depth is one above
\* the adapter's maximum
RecvDepthAboveMax(t) ==
    /\ op'[t].name = "create_qp"
    /\ op'[t].arg.cap.max_recv_wr = mctx.max_recv_wr + 1

\* ... whose send depth is one above the number of blocks a send queue
\* may have: every descriptor takes a block at least
SendDepthAboveMax(t) ==
    /\ op'[t].name = "create_qp"
    /\ op'[t].arg.cap.max_send_wr = mctx.max_send_wqebb + 1

\* ... with a receive work queue request whose depth is one above the
\* adapter's maximum
WqDepthAboveMax(t) ==
    /\ op'[t].name = "create_wq"
    /\ op'[t].arg.wq_type = "RQ"
    /\ op'[t].arg.max_wr = mctx.max_recv_wr + 1

\* the call of thread t fails for an invalid argument, or for want of
\* memory before the sizes are computed, and leaves objects and tables
\* as they were
RefusedCreatingNothing(t) ==
    /\ ret'[t] \in {"EINVAL", "ENOMEM"}
    /\ UNCHANGED <<objvars, tblvars>>

\* create_qp refuses the depths above the maxima
QpDepthAboveMaxRefused ==
    [][\A t \in Threads :
         /\ pc[t] = "idle" /\ pc'[t] = "done"
         /\ RecvDepthAboveMax(t) \/ SendDepthAboveMax(t)
         => RefusedCreatingNothing(t)]_vars

\* C17: a request whose depth is one more than the adapter's maximum fails
\* with EINVAL and creates nothing: a QP receive queue of max_recv_wr + 1,
\* a send queue of more slots than max_send_wqebb, a receive work queue of
\* max_recv_wr + 1
C17_DepthAboveMaxRefused ==
    [][\A t \in Threads :
         /\ pc[t] = "idle" /\ pc'[t] = "done"
         /\ RecvDepthAboveMax(t) \/ SendDepthAboveMax(t) \/ WqDepthAboveMax(t)
         => RefusedCreatingNothing(t)]_vars

\* ---------------------------------------------------------------- C18

\* thread t has created a reliable-connected QP for 200 sends of one
\* scatter entry or 64 inline bytes and no receives, on an adapter whose
\* descriptors have 512 bytes at most
ScenarioQpCreated(t) ==
    /\ Succeeded(t, "create_qp")
    /\ op[t].arg.kind = "RC"
    /\ op[t].arg.cap = [max_send_wr |-> 200, max_send_sge |-> 1,
                        max_inline_data |-> 64, max_recv_wr |-> 0,
                        max_recv_sge |-> 0]
    /\ mctx.max_sq_desc_sz = 512

\* the QP has no receive queue and its buffer holds the send queue alone
SendOnlyQp(qp) ==
    /\ qp.rq.wqe_cnt = 0 /\ qp.rq.wqe_shift = 0
    /\ qp.rq.max_post = 0 /\ qp.rq.max_gs = 0
    /\ qp.buf_size = qp.sq.wqe_cnt * MLX5_SEND_WQE_BB

\* C18 as stated: the QP of the scenario has 256 send slots, no receive
\* queue, and a buffer of the size of the send queue
C18_ScenarioAsStated ==
    \A t \in Threads :
        ScenarioQpCreated(t)
        => qps[t_qp[t]].sq.wqe_cnt = 256 /\ SendOnlyQp(qps[t_qp[t]])

\* C18: the QP of the scenario has 1024 send slots of 64 bytes (200
\* descriptors of 320 bytes, rounded up to 65536 bytes), room for 204
\* sends, no receive queue, and a buffer of the size of the send queue
C18_Scenario ==
    \A t \in Threads :
        ScenarioQpCreated(t)
        => /\ qps[t_qp[t]].sq.wqe_cnt = 1024
           /\ qps[t_qp[t]].sq.max_post = 204
           /\ qps[t_qp[t]].buf_size = 65536
           /\ SendOnlyQp(qps[t_qp[t]])

C18_Witness ==
    \E t \in Threads :
        /\ ScenarioQpCreated(t)
        /\ qps[t_qp[t]].sq.wqe_cnt > 0
        /\ qps[t_qp[t]].buf_size > 0


\* the QP a finished or running mlx5_modify_qp of t was called for, when
\* the call asked for the state new on a QP that is neither a DCT nor an
\* RSS QP
ModifyOf(t, new) ==
    /\ op[t].name = "mlx5_modify_qp"
    /\ op[t].arg.state = new
    /\ qps[op[t].arg.qp].dc_type # "DCT"
    /\ ~qps[op[t].arg.qp].rss_qp

\* no completion of the resource rsn waits in the CQ c
Scavenged(c, rsn) ==
    c = NULL \/ \A i \in 1..Len(cq_cqes[c]) : cqe_rsn(cq_cqes[c][i]) # rsn

\* after a successful modify to RESET both halves of the doorbell record
\* and the four cursors are zero and the CQs hold no completion of the QP
ResetOnSuccess ==
    \A t \in Threads :
        Succeeded(t, "mlx5_modify_qp") /\ ModifyOf(t, "RESET") =>
            LET qp == qps[op[t].arg.qp] IN
            /\ qp.dbr.snd = 0 /\ qp.dbr.rcv = 0
            /\ qp.sq.head = 0 /\ qp.sq.tail = 0
            /\ qp.rq.head = 0 /\ qp.rq.tail = 0
            /\ Scavenged(qp.send_cq, qp.rsn)
            /\ Scavenged(qp.recv_cq, qp.rsn)

\* a modify to RESET that returns an error has changed no QP and no CQ
ResetFailureLeaves ==
    \A t \in Threads :
        ( /\ pc'[t] = "done" /\ pc[t] # "done"
          /\ op'[t].name = "mlx5_modify_qp"
          /\ op'[t].arg.state = "RESET"
          /\ ret'[t] # "OK" ) => UNCHANGED <<qps, cq_cqes>>

\* C19: mlx5_modify_qp to RESET zeroes both halves of the doorbell record,
\* resets the four queue cursors and removes the QP's completions from its
\* CQs when the kernel command succeeded, and only then: a modify whose
\* kernel command fails leaves the doorbell record, the cursors and the
\* CQs as they were
C19_ResetIffKernelSucceeded ==
    []ResetOnSuccess /\ [][ResetFailureLeaves]_vars

\* a modify to RESET has succeeded on a QP with two CQs, both scanned
C19_Witness ==
    \E t \in Threads :
        /\ Succeeded(t, "mlx5_modify_qp") /\ ModifyOf(t, "RESET")
        /\ Len(trace[t]) = 3
        /\ qps[op[t].arg.qp].send_cq # qps[op[t].arg.qp].recv_cq

\* the DCTs of the context
Dcts == {q \in qp_live : qps[q].dc_type = "DCT"}

\* the user indexes and the QP numbers a QP is registered under
UidxOf(q) == {i \in UidxIds : uidx_table[i] = QpRef(q)}
QpnsOf(q) == {n \in Qpns : qp_table[n] = QpRef(q)}

\* a DCT found in a table has been moved to RTR and is found under the
\* DCT number of that modify, in the table of QP numbers
RegisteredByModify(q) ==
    UidxOf(q) # {} \/ QpnsOf(q) # {} =>
        /\ qps[q].state = "RTR"
        /\ UidxOf(q) = {}
        /\ QpnsOf(q) = {qps[q].qp_num}

\* as the statement has it: in no table when created, in a table only
\* after a successful modify to RTR, under the DCT number
C20_LazyAsStated == \A q \in Dcts : RegisteredByModify(q)

\* the modify to RTR of a DCT that t has seen succeed
DctAtRtr(t, q) ==
    /\ Succeeded(t, "mlx5_modify_qp")
    /\ op[t].arg = [qp |-> q, state |-> "RTR"]

\* C20: without user indexes (cqe_version 0) a DCT is in no table when it
\* is created; it is entered in the table of QP numbers by a successful
\* modify to RTR and by nothing else, under the DCT number that modify
\* returned.  With user indexes it is registered when it is created, under
\* its user index, and no modify registers it anywhere else
C20_LazyLegacyOnly ==
    \A q \in Dcts :
        IF cqe_version = 0
        THEN /\ RegisteredByModify(q)
             /\ \A t \in Threads : DctAtRtr(t, q) => QpnsOf(q) # {}
        ELSE /\ UidxOf(q) = {qps[q].cmd_uidx}
             /\ QpnsOf(q) = {}

\* without user indexes a DCT has been moved to RTR and is registered
\* under a DCT number other than the number it was created with
C20_Witness ==
    \E t \in Threads, q \in Dcts :
        /\ cqe_version = 0
        /\ DctAtRtr(t, q)
        /\ qps[q].qp_num # 0
        /\ qp_table[qps[q].qp_num] = QpRef(q)

\* the request of a call is one the argument checks turn down: an
\* unsupported mask or flag bit, a zero size, a size above the adapter's
\* limits, a transport type without the feature asked for
InvalidRequest(o) ==
    \/ o.name = "mlx5_alloc_td" /\ o.arg # 0
    \/ o.name = "create_cq" /\ (o.arg.cqe = 0 \/ o.arg.mask # "ok")
    \/ /\ o.name = "create_qp"
       /\ \/ o.arg.kind \notin {"RC", "DCT"}
          \/ o.arg.cap.max_send_wr > mctx.max_send_wqebb
          \/ o.arg.cap.max_recv_sge * sizeof_mlx5_wqe_data_seg
                 > mctx.max_rq_desc_sz
    \/ /\ o.name = "create_wq"
       /\ \/ o.arg.wq_type # "RQ"
          \/ o.arg.max_wr = 0
          \/ o.arg.mprq \in {"bad_mask", "bad_stride"}
          \/ o.arg.max_sge * sizeof_mlx5_wqe_data_seg > mctx.max_rq_desc_sz

\* the call has issued no kernel command
NoKernelCommand(t) ==
    \A i \in 1..Len(trace'[t]) :
        trace'[t][i][1] \notin {"cmd_create_cq", "cmd_create_qp",
                                "cmd_create_wq", "cmd_failed"}

\* C21: a call of mlx5_alloc_td, create_cq, create_qp or create_wq with a
\* request the argument validation turns down returns a failure at once,
\* has issued no kernel create command, created no object, and leaves the
\* BF pool, the resource index tables, every reference count and every
\* lock as they were before the call
C21_ValidationFailureChangesNothing ==
    [][\A t \in Threads :
          pc[t] = "idle" /\ pc'[t] # "idle" /\ InvalidRequest(op'[t]) =>
              /\ pc'[t] = "done"
              /\ ret'[t] \in {"EINVAL", "ENOTSUP", "ENOMEM", "NULL"}
              /\ NoKernelCommand(t)
              /\ UNCHANGED <<count_dyn_bfregs, bfs_uar, bfs_reg, next_page,
                             td_live, td_bf, dyn_bfregs_mutex>>
              /\ UNCHANGED <<uidx_table, qp_table, srq_table>>
              /\ UNCHANGED <<td_refcount, pd_refcount, par_refcount>>
              /\ UNCHANGED <<qp_table_mutex, srq_table_mutex, cq_lock>>
              /\ UNCHANGED <<cqobjs, objvars>>]_vars

\* create_wq has turned down a stride size after it had taken a user
\* index, in a context that holds a thread domain, a QP and a second CQ
C21_Witness ==
    \E t \in Threads :
        /\ pc[t] = "done" /\ op[t].name = "create_wq"
        /\ op[t].arg.mprq = "bad_stride" /\ ret[t] = "EINVAL"
        /\ Len(trace[t]) > 0
        /\ td_live # {} /\ qp_live # {} /\ Cardinality(cq_live) > 1

\* the step writes cq->resize_buf or cq->active_buf of the CQ c
BufPointerWritten(c) ==
    \/ mcq'[c].resize_buf # mcq[c].resize_buf
    \/ mcq'[c].active_buf # mcq[c].active_buf

\* a step of mlx5_resize_cq run by t: the step at rz_lock takes the lock
\* before it writes, every later step needs the lock taken there
ResizeStepLocked(t) ==
    pc[t] = "rz_lock" \/ cq_lock[t_cq(t)] = t

\* C22: every write mlx5_resize_cq makes to a CQ's resize_buf and
\* active_buf pointers is made by a thread that holds the CQ's lock, so
\* those pointers do not change while another thread holds the lock
C22_BufPointersUnderLock ==
    [][/\ \A t \in Threads :
            /\ op[t].name = "mlx5_resize_cq"
            /\ pc[t] \notin {"idle", "done"} /\ pc'[t] # pc[t]
            /\ BufPointerWritten(t_cq(t))
            => ResizeStepLocked(t)
       /\ \A c \in CqIds, h \in Threads :
            cq_lock[c] = h /\ cq_lock'[c] = h /\ BufPointerWritten(c)
            => pc'[h] # pc[h]]_vars

\* ------------------------------------------------------------------ C23
\* C23: every store into and every clear from the QP table and the SRQ
\* table is made by a thread that holds the table's mutex: a step that
\* changes qp_table is taken by a thread holding qp_table_mutex, a step
\* that changes srq_table by a thread holding srq_table_mutex.

\* thread t takes the step
Steps(t) == pc'[t] # pc[t]

QpTableWritesUnderMutex ==
    qp_table' # qp_table =>
        \E t \in Threads : Steps(t) /\ qp_table_mutex = t

SrqTableWritesUnderMutex ==
    srq_table' # srq_table =>
        \E t \in Threads : Steps(t) /\ srq_table_mutex = t

C23_TableWritesUnderMutex ==
    [][QpTableWritesUnderMutex /\ SrqTableWritesUnderMutex]_vars

\* ------------------------------------------------------------------ C24
\* C24: without user indexes create_qp holds qp_table_mutex from before
\* the kernel create command until the QP is in the QP table: a QP the
\* kernel holds, that has send or receive slots and is missing from the
\* table, exists only while the thread creating it holds the mutex, so no
\* other thread that takes the mutex finds such a QP.

\* QP q has send or receive slots
HasSlots(q) == qps[q].sq.wqe_cnt # 0 \/ qps[q].rq.wqe_cnt # 0

\* the kernel holds QP q of the ordinary path and the QP table has no
\* entry for it
KernelQpMissing(q) ==
    /\ cqe_version = 0
    /\ QpRef(q) \in k_live
    /\ qps[q].dc_type # "DCT" /\ ~qps[q].rss_qp
    /\ HasSlots(q)
    /\ qp_table[qps[q].qp_num] # QpRef(q)

\* thread t is inside create_qp for QP q and holds the mutex
CreatingLocked(t, q) ==
    /\ op[t].name = "create_qp" /\ pc[t] = "create_qp_store"
    /\ t_qp[t] = q
    /\ qp_table_mutex = t

C24_MutexCoversCommandAndStore ==
    \A q \in QpIds :
        KernelQpMissing(q) => \E t \in Threads : CreatingLocked(t, q)

\* one thread is between the kernel command and the store, another one has
\* asked for the mutex
C24_Witness ==
    \E t \in Threads, u \in Threads, q \in QpIds :
        /\ u # t
        /\ KernelQpMissing(q) /\ CreatingLocked(t, q)
        /\ op[u].name = "create_qp" /\ pc[u] = "create_qp_lock"

\* ------------------------------------------------------------------ C25
\* C25: with user indexes (cqe_version 1 or more) create_qp stores the QP
\* in the uidx table before it issues the kernel create command, passes
\* the index in the command and, when the command succeeds, records the
\* same index as the QP's resource number.  As stated, for every QP type
\* but the XRC receive target; as the code has it, for every QP but the
\* XRC receive target and the RSS QP of a raw packet request with a
\* receive hash configuration, which is created without an index.

\* event a comes before event b in the record tr
Before(tr, a, b) ==
    \E i \in DOMAIN tr, j \in DOMAIN tr : i < j /\ tr[i] = a /\ tr[j] = b

\* thread t has returned from a create_qp call in a context with user
\* indexes
CreateQpModern(t) ==
    op[t].name = "create_qp" /\ pc[t] = "done" /\ cqe_version # 0

\* the QP thread t created sits in the uidx table at the index the command
\* carried, stored there before the command, and that index is its rsn
UidxStoredPassedRecorded(t) ==
    LET q == t_qp[t]
        i == qps[q].cmd_uidx
    IN
    /\ i \in UidxIds
    /\ uidx_table[i] = QpRef(q)
    /\ Before(trace[t], <<"store_uidx", i>>, <<"cmd_create_qp", q>>)
    /\ qps[q].rsn = i

\* a kernel command of the call of thread t that failed had an index
\* stored before it too
UidxStoredBeforeFailedCommand(t) ==
    \A q \in QpIds :
        <<"cmd_create_qp", q>> \in Elems(trace[t]) =>
            \E i \in UidxIds :
                Before(trace[t], <<"store_uidx", i>>, <<"cmd_create_qp", q>>)

C25_UidxAsStated ==
    \A t \in Threads :
        CreateQpModern(t) /\ attr_qp_type(op[t].arg) # "XRC_RECV" =>
            IF ret[t] = "OK" THEN UidxStoredPassedRecorded(t)
            ELSE UidxStoredBeforeFailedCommand(t)

C25_UidxBeforeCommand ==
    \A t \in Threads :
        CreateQpModern(t) /\ op[t].arg.kind \notin {"XRC_RECV", "RSS"} =>
            IF ret[t] = "OK" THEN UidxStoredPassedRecorded(t)
            ELSE UidxStoredBeforeFailedCommand(t)

\* a QP created at an index other than the first one
C25_Witness ==
    \E t \in Threads :
        /\ CreateQpModern(t) /\ ret[t] = "OK"
        /\ op[t].arg.kind = "RC"
        /\ qps[t_qp[t]].cmd_uidx > 0
        /\ UidxStoredPassedRecorded(t)

\* ------------------------------------------------------------------ C26
\* C26: a successful mlx5_destroy_qp issues the kernel destroy command
\* first, then scavenges the QP's completions from its CQs under their
\* locks, then releases the index-table entry, then the queue buffers and
\* the doorbell record.  As stated, the doorbell record goes last, after
\* the buffers; as the code has it, the doorbell record is released before
\* the buffers, in the reverse of the order create_qp allocates them.

\* thread t has returned from a successful mlx5_destroy_qp of a QP that is
\* not an RSS QP
DestroyedQp(t) ==
    /\ op[t].name = "mlx5_destroy_qp" /\ pc[t] = "done" /\ ret[t] = "OK"
    /\ \E c \in CqIds : <<"clean", c>> \in Elems(trace[t])

\* the events of kind k in the record tr
EventsOf(tr, k) == {e \in Elems(tr) : e[1] = k}

\* every event of set A comes before every event of set B in the record tr
AllBefore(tr, A, B) ==
    \A a \in A, b \in B :
        \A i \in DOMAIN tr, j \in DOMAIN tr :
            tr[i] = a /\ tr[j] = b => i < j

IndexEntryEvents(tr) == EventsOf(tr, "clear_qp") \cup EventsOf(tr, "clear_uidx")

\* the kernel command, then the scans under the CQs' locks, then the index
\* entry, then the two releases
DestroyOrderUpToReleases(tr) ==
    /\ tr[1][1] = "cmd_destroy_qp"
    /\ \A c \in CqIds :
         <<"clean", c>> \in Elems(tr) =>
            /\ Before(tr, <<"lock", c>>, <<"clean", c>>)
            /\ Before(tr, <<"clean", c>>, <<"unlock", c>>)
    /\ AllBefore(tr, EventsOf(tr, "clean"), IndexEntryEvents(tr))
    /\ AllBefore(tr, IndexEntryEvents(tr),
                 EventsOf(tr, "free_db") \cup EventsOf(tr, "free_buf"))
    /\ tr[Len(tr)][1] = "free"

C26_DoorbellLast ==
    \A t \in Threads :
        DestroyedQp(t) =>
            /\ DestroyOrderUpToReleases(trace[t])
            /\ AllBefore(trace[t], EventsOf(trace[t], "free_buf"),
                         EventsOf(trace[t], "free_db"))

C26_DoorbellBeforeBuffers ==
    \A t \in Threads :
        DestroyedQp(t) =>
            /\ DestroyOrderUpToReleases(trace[t])
            /\ AllBefore(trace[t], EventsOf(trace[t], "free_db"),
                         EventsOf(trace[t], "free_buf"))

\* a QP on two CQs was destroyed: completions were dropped from a CQ, an
\* index entry, the doorbell record and the buffers were released
C26_Witness ==
    \E t \in Threads :
        /\ DestroyedQp(t)
        /\ Cardinality(EventsOf(trace[t], "clean")) = 2
        /\ \E n \in 1..MaxCqe : <<"nfreed", n>> \in Elems(trace[t])
        /\ IndexEntryEvents(trace[t]) # {}
        /\ EventsOf(trace[t], "free_db") # {}
        /\ EventsOf(trace[t], "free_buf") # {}

\* ------------------------------------------------------------------ C27
\* C27: the send descriptor size of a QP is the larger of overhead plus
\* scatter space and overhead plus inline space, rounded up to the 64-byte
\* basic block; a request for which that size is above
\* ctx->max_sq_desc_sz is turned down with EINVAL, so the descriptor size of
\* a QP that was created is never above the adapter's maximum.

\* thread t has returned from a create_qp call that asked for a send queue
SendSized(t) ==
    /\ op[t].name = "create_qp" /\ pc[t] = "done"
    /\ op[t].arg.kind \in {"RC", "DCI", "XRC_SEND"}
    /\ op[t].arg.cap.max_send_wr > 0

\* the overhead of the request of thread t
SendOverhead(t) ==
    sq_overhead(attr_qp_type(op[t].arg),
                IF op[t].arg.kind = "DCI" THEN "DCI" ELSE "none", FALSE)

\* the largest multiple of a that is not above val
align_down(val, a) == (val \div a) * a

\* overhead plus scatter space of the request of thread t
ScatterSize(t) ==
    SendOverhead(t) + op[t].arg.cap.max_send_sge * sizeof_mlx5_wqe_data_seg

\* overhead plus inline space (the inline header and the data, in units of
\* 16 bytes) of the request of thread t is above limit
InlineSizeAbove(t, limit) ==
    /\ op[t].arg.cap.max_inline_data # 0
    /\ sizeof_mlx5_wqe_inl_data_seg + op[t].arg.cap.max_inline_data
         > align_down(limit - SendOverhead(t), 16)

\* the descriptor size of the statement is above the adapter's maximum
DescriptorAboveMax(t) ==
    LET limit == align_down(mctx.max_sq_desc_sz, MLX5_SEND_WQE_BB) IN
    ScatterSize(t) > limit \/ InlineSizeAbove(t, limit)

\* the descriptor size of the statement, where it is not above the maximum
StatedDescriptorSize(t) ==
    align(max_int(ScatterSize(t),
                  IF op[t].arg.cap.max_inline_data # 0
                  THEN SendOverhead(t)
                       + align(sizeof_mlx5_wqe_inl_data_seg
                               + op[t].arg.cap.max_inline_data, 16)
                  ELSE 0),
          MLX5_SEND_WQE_BB)

\* the QP thread t created has the send queue of descriptors of w bytes
SendQueueOf(t, w) ==
    LET sq == qps[t_qp[t]].sq IN
    /\ w <= mctx.max_sq_desc_sz
    /\ sq.max_post = (sq.wqe_cnt * MLX5_SEND_WQE_BB) \div w
    /\ sq.max_post >= op[t].arg.cap.max_send_wr

C27_SendDescriptorSize ==
    \A t \in Threads :
        SendSized(t) =>
            IF DescriptorAboveMax(t)
            THEN ret[t] \in {"EINVAL", "ENOMEM"}
            ELSE ret[t] = "OK" => SendQueueOf(t, StatedDescriptorSize(t))

\* ------------------------------------------------------------------ C28
\* C28: a receive request whose descriptor (scatter entries times the size
\* of a data segment, plus the signature segment where signatures are on)
\* is larger than ctx->max_rq_desc_sz is turned down with EINVAL by the
\* receive sizing of create_qp, by mlx5_create_srq and by
\* mlx5_create_srq_ex.

\* the receive descriptor of the statement
RecvDescriptorSize(max_sge, wq_sig) ==
    max_sge * sizeof_mlx5_wqe_data_seg
    + ( IF wq_sig THEN sizeof_mlx5_rwqe_sig ELSE 0 )

\* thread t has returned from a call that asked for an SRQ with a
\* descriptor above the adapter's maximum
SrqDescriptorAboveMax(t) ==
    /\ op[t].name \in {"mlx5_create_srq", "mlx5_create_srq_ex"}
    /\ pc[t] = "done"
    /\ op[t].arg.srq_type \in {"BASIC", "XRC"}
    /\ RecvDescriptorSize(op[t].arg.max_sge, FALSE) > mctx.max_rq_desc_sz

\* thread t has returned from a call that asked for a QP with a receive
\* queue of its own and a descriptor above the adapter's maximum
QpRecvDescriptorAboveMax(t) ==
    /\ op[t].name = "create_qp" /\ pc[t] = "done"
    /\ op[t].arg.kind \in {"RC", "DCI", "XRC_SEND"}
    /\ op[t].arg.cap.max_recv_wr > 0 /\ op[t].arg.srq = NULL
    /\ RecvDescriptorSize(max_int(op[t].arg.cap.max_recv_sge, 1),
                          op[t].arg.wq_sig) > mctx.max_rq_desc_sz

C28_OversizeRecvRefused ==
    \A t \in Threads :
        SrqDescriptorAboveMax(t) \/ QpRecvDescriptorAboveMax(t) =>
            ret[t] \in {"EINVAL", "ENOMEM"}

\* ------------------------------------------------------------------ C29
\* C29: a QP that is neither raw-packet nor underlay has one buffer of
\* send-queue bytes plus receive-queue bytes, the receive queue at offset 0
\* and the send queue at the offset that equals the receive-queue bytes; a
\* raw-packet or underlay QP has two buffers, buf_size of the receive-queue
\* bytes and sq_buf_size of the send-queue bytes, and its send queue is at
\* offset 0 of its buffer.

\* thread t has returned from a create_qp call that made a QP with work
\* queues in user memory
CreatedSized(t) ==
    /\ op[t].name = "create_qp" /\ pc[t] = "done" /\ ret[t] = "OK"
    /\ op[t].arg.kind \in {"RC", "UD", "UD_UNDERLAY", "RAW_PACKET", "DCI",
                           "XRC_SEND"}

\* the bytes of a work queue: its descriptors times their size
WqBytes(wq) == wq.wqe_cnt * (2 ^ wq.wqe_shift)

\* the request of thread t asks for separate buffers
TwoBuffers(t) == op[t].arg.kind \in {"UD_UNDERLAY", "RAW_PACKET"}

OneBufferLayout(qp) ==
    /\ qp.buf_size = WqBytes(qp.sq) + WqBytes(qp.rq)
    /\ qp.sq_buf_size = 0
    /\ qp.rq.offset = 0
    /\ qp.sq.offset = WqBytes(qp.rq)

TwoBufferLayout(qp) ==
    /\ qp.buf_size = WqBytes(qp.rq)
    /\ qp.sq_buf_size = WqBytes(qp.sq)
    /\ qp.rq.offset = 0
    /\ qp.sq.offset = 0

C29_BufferLayout ==
    \A t \in Threads :
        CreatedSized(t) =>
            IF TwoBuffers(t)
            THEN TwoBufferLayout(qps[t_qp[t]])
            ELSE OneBufferLayout(qps[t_qp[t]])

\* a raw-packet or underlay QP with both queues has been created, and its
\* two buffers are the sizes of its queues
C29_Witness ==
    \E t \in Threads :
        /\ CreatedSized(t) /\ TwoBuffers(t)
        /\ qps[t_qp[t]].sq.wqe_cnt > 0 /\ qps[t_qp[t]].rq.wqe_cnt > 0
        /\ qps[t_qp[t]].buf_size > 0 /\ qps[t_qp[t]].sq_buf_size > 0
        /\ TwoBufferLayout(qps[t_qp[t]])

\* a QP of one buffer with both queues has been created, its send queue
\* behind its receive queue
C29_WitnessOneBuffer ==
    \E t \in Threads :
        /\ CreatedSized(t) /\ ~TwoBuffers(t)
        /\ qps[t_qp[t]].sq.wqe_cnt > 0 /\ qps[t_qp[t]].rq.wqe_cnt > 0
        /\ qps[t_qp[t]].sq.offset > 0
        /\ OneBufferLayout(qps[t_qp[t]])

\* ------------------------------------------------------------------ C30
\* C30: a QP created with max_recv_wr = 0, or with an SRQ attached, has no
\* receive queue of its own: rq.wqe_cnt, rq.wqe_shift, rq.max_post and
\* rq.max_gs are zero, its buffers hold the bytes of the send queue alone,
\* the capabilities written back report max_recv_wr = 0, and a depth of
\* zero is never what create_qp turns a request down for.

\* thread t has returned from a create_qp call for a QP kind with work
\* queues that asked for no receive queue or named an SRQ
NoRecvRequest(t) ==
    /\ op[t].name = "create_qp" /\ pc[t] = "done"
    /\ op[t].arg.kind \in {"RC", "UD", "UD_UNDERLAY", "RAW_PACKET", "DCI",
                           "XRC_SEND"}
    /\ op[t].arg.cap.max_recv_wr = 0 \/ op[t].arg.srq # NULL

NoReceiveQueue(qp) ==
    /\ qp.rq.wqe_cnt = 0 /\ qp.rq.wqe_shift = 0
    /\ qp.rq.max_post = 0 /\ qp.rq.max_gs = 0
    /\ qp.buf_size + qp.sq_buf_size = WqBytes(qp.sq)
    /\ create_qp_cap(qp).max_recv_wr = 0

\* the send sizing turns the request of thread t down
SendSizingRefuses(t) ==
    mlx5_calc_sq_size(mctx,
                      [sizing_attr(attr_qp_type(op[t].arg),
                                   attr_dc_type(op[t].arg),
                                   op[t].arg.cap, op[t].arg.srq)
                         EXCEPT !.underlay = attr_underlay(op[t].arg)]).ret < 0

C30_NoReceiveQueue ==
    \A t \in Threads :
        NoRecvRequest(t) =>
            /\ ret[t] = "OK" => NoReceiveQueue(qps[t_qp[t]])
            /\ op[t].arg.cap.max_recv_wr = 0 /\ ret[t] = "EINVAL"
                   => SendSizingRefuses(t)

\* a QP has been created on an SRQ by a request that asked for receive
\* depth and scatter entries, and it has no receive queue
C30_Witness ==
    \E t \in Threads :
        /\ NoRecvRequest(t) /\ ret[t] = "OK"
        /\ op[t].arg.srq # NULL
        /\ op[t].arg.cap.max_recv_wr > 0 /\ op[t].arg.cap.max_recv_sge > 0
        /\ NoReceiveQueue(qps[t_qp[t]])

\* a QP with a send queue has been created by a request of receive depth 0
C30_WitnessZeroDepth ==
    \E t \in Threads :
        /\ NoRecvRequest(t) /\ ret[t] = "OK"
        /\ op[t].arg.srq = NULL /\ op[t].arg.cap.max_recv_wr = 0
        /\ qps[t_qp[t]].sq.wqe_cnt > 0
        /\ NoReceiveQueue(qps[t_qp[t]])

\* ------------------------------------------------------------------ C31
\* C31: when mlx5_resize_cq fails, because the new buffer cannot be
\* allocated or because the kernel resize command fails, the call returns
\* with the CQ's active buffer and capacity as they were, the buffer it
\* allocated freed, resize_buf NULL and the CQ lock released.

\* thread t takes the step in which its mlx5_resize_cq call fails: the
\* allocation of line 798 fails, or the kernel command has failed and the
\* call is at out_buf
ResizeFails(t) ==
    /\ op[t].name = "mlx5_resize_cq" /\ Steps(t)
    /\ \/ pc[t] = "rz_alloc" /\ pc'[t] # "rz_cmd"
       \/ pc[t] = "rz_out_buf"

\* the step returns from the call and leaves the CQ c as it was before it
ResizeUndone(t, c) ==
    /\ pc'[t] = "done" /\ ret'[t] # "OK"
    /\ mcq'[c].active_buf = mcq[c].active_buf
    /\ mcq'[c].cqe = mcq[c].cqe
    /\ cq_buf_allocated(mcq'[c], mcq[c].active_buf)
    /\ ~cq_buf_allocated(mcq'[c], other_buf(mcq[c].active_buf))
    /\ mcq'[c].resize_buf = NoBuf
    /\ cq_lock'[c] = NULL

C31_FailedResizeUndone ==
    [][\A t \in Threads : ResizeFails(t) => ResizeUndone(t, t_cq(t))]_vars

\* ------------------------------------------------------------------ C32
\* C32: after the send sizing has accepted a request, the max_inline_data
\* it computed for the QP and wrote back to the caller's capabilities is
\* not negative and not below the max_inline_data the caller asked for,
\* whatever the transport, max_send_sge and max_inline_data, zero included.

\* the QP of thread t was created with the send queue its request asked for
SendAccepted(t) == SendSized(t) /\ ret[t] = "OK"

C32_InlineReported ==
    \A t \in Threads :
        SendAccepted(t) =>
            /\ qps[t_qp[t]].max_inline_data >= 0
            /\ qps[t_qp[t]].max_inline_data >= op[t].arg.cap.max_inline_data

\* ------------------------------------------------------------------ C33
\* C33: between calls, the reference count of every live parent domain is
\* 1 plus the number of live QPs created on it, of whatever kind (ordinary,
\* DCI, DCT, RSS); it is never below 1 while the parent domain is alive.

\* no verb is running
Quiescent == \A t \in Threads : pc[t] \in {"idle", "done"}

\* the live QPs created on the parent domain m
QpsOn(m) == {q \in qp_live : qps[q].parent = m}

C33_ParentCountsQps ==
    Quiescent =>
        \A m \in par_live :
            /\ par_refcount[m] = 1 + Cardinality(QpsOn(m))
            /\ par_refcount[m] >= 1

\* ------------------------------------------------------------------ C34
\* C34: whatever parent domains have been allocated and deallocated, the
\* reference count of every thread domain is 1 plus the number of live
\* parent domains attached to it, and that of every protection domain is 1
\* plus the number of live parent domains wrapping it; a parent-domain
\* deallocation that fails with EBUSY changes neither count.

\* the live parent domains attached to the thread domain d
ParentsOfTd(d) == {m \in par_live : par_td[m] = d}

\* the live parent domains that wrap the protection domain p
ParentsOfPd(p) == {m \in par_live : par_pd[m] = p}

DomainCounts ==
    /\ \A d \in td_live : td_refcount[d] = 1 + Cardinality(ParentsOfTd(d))
    /\ \A p \in pd_live : pd_refcount[p] = 1 + Cardinality(ParentsOfPd(p))

\* thread t takes the step in which its deallocation of a parent domain
\* fails with EBUSY
ParentDeallocBusy(t) ==
    /\ pc[t] = "idle" /\ pc'[t] = "done"
    /\ op'[t].name = "mlx5_free_pd" /\ op'[t].arg[1] = "parent"
    /\ ret'[t] = "EBUSY"

C34_DomainCountsParents ==
    [][/\ DomainCounts'
       /\ \A t \in Threads :
            ParentDeallocBusy(t) =>
                UNCHANGED <<td_refcount, pd_refcount, par_live, par_refcount>>
      ]_vars

\* a parent domain with a thread domain holds a QP, its deallocation has
\* failed with EBUSY, and both counts are 2
C34_Witness ==
    \E t \in Threads, m \in par_live :
        /\ pc[t] = "done" /\ op[t].name = "mlx5_free_pd"
        /\ op[t].arg = <<"parent", m>> /\ ret[t] = "EBUSY"
        /\ par_td[m] # NULL /\ td_refcount[par_td[m]] = 2
        /\ pd_refcount[par_pd[m]] = 2
        /\ QpsOn(m) # {}

\* ------------------------------------------------------------------ C35
\* C35: every operation returns holding none of the locks it acquired, on
\* its success path and on every error path: a thread that is not inside
\* a verb holds neither the QP table mutex, the SRQ table mutex, the
\* dynamic-BF mutex nor the lock of any CQ.

HoldsNoLock(t) ==
    /\ dyn_bfregs_mutex # t
    /\ qp_table_mutex # t
    /\ srq_table_mutex # t
    /\ \A c \in CqIds : cq_lock[c] # t

TableCallers == {Min(Threads)}

\* a context with or without user indexes and nothing created yet
InitTB ==
    /\ InitTh /\ InitTdOne /\ InitPdOne
    /\ cqe_version \in {0, 1}
    /\ InitCtx
    /\ InitCqs
    /\ InitQpVars

\* the QPs created: one with queues, a DCT, and the kinds that get no
\* entry, an XRC receive target and an RSS QP
TableQpAttrs ==
    {attr \in CreateAttrs : attr.kind \in {"RC", "DCT", "XRC_RECV", "RSS"}}

create_qp_indexed(t) ==
    Idle(t) /\ \E attr \in TableQpAttrs : create_qp_attr(t, attr)

\* QPs, SRQs and receive work queues created, modified and destroyed one
\* call after the other
NextTB ==
    \E t \in TableCallers :
        \/ create_qp_indexed(t)
        \/ mlx5_modify_qp(t)
        \/ modify_qp_clean_recv(t)
        \/ modify_qp_clean_send(t)
        \/ mlx5_destroy_qp(t)
        \/ destroy_qp_lock_cqs(t)
        \/ destroy_qp_lock_second(t)
        \/ destroy_qp_clean(t)
        \/ mlx5_create_srq(t)
        \/ create_srq_cmd(t)
        \/ create_srq_store(t)
        \/ mlx5_create_srq_ex(t)
        \/ create_srq_ex_cmd(t)
        \/ create_srq_ex_store(t)
        \/ mlx5_destroy_srq(t)
        \/ destroy_srq_cmd(t)
        \/ create_wq_any(t)
        \/ mlx5_destroy_wq(t)
        \/ destroy_wq_clean(t)
        \/ Return(t)

SpecTB == InitTB /\ [][NextTB]_vars

\* the events the step adds to the trace of thread t
NewEvents(t) ==
    IF Len(trace'[t]) >= Len(trace[t])
    THEN SubSeq(trace'[t], Len(trace[t]) + 1, Len(trace'[t]))
    ELSE <<>>

\* an entry names a live object under the key that object carries
EntriesNameLiveObjects ==
    /\ \A n \in Qpns : qp_table[n] # NoRef =>
          \E q \in qp_live : qp_table[n] = QpRef(q) /\ qps[q].qp_num = n
    /\ \A n \in SrqIds : srq_table[n] # NoRef =>
          \E x \in srq_live : srq_table[n] = SrqRef(x) /\ srqs[x].srqn = n
    /\ \A i \in UidxIds : uidx_table[i] # NoRef =>
          \/ \E q \in qp_live : uidx_table[i] = QpRef(q) /\ qps[q].rsn = i
          \/ \E x \in srq_live : uidx_table[i] = SrqRef(x) /\ srqs[x].rsn = i
          \/ \E w \in wq_live : uidx_table[i] = WqRef(w) /\ wqs[w].rsn = i

\* a live object whose completions carry a QP number, an SRQ number or a
\* user index is found under it: a DCT without user indexes from the
\* modify to RTR that returned 0 on
LiveObjectsHaveEntries ==
    /\ \A q \in qp_live :
          /\ cqe_version = 0 /\ qps[q].dc_type # "DCT" /\ qps[q].has_wq
                => qp_table[qps[q].qp_num] = QpRef(q)
          /\ cqe_version = 0 /\ qps[q].dc_type = "DCT" /\ qps[q].state = "RTR"
                => qp_table[qps[q].qp_num] = QpRef(q)
          /\ cqe_version # 0 /\ ~qps[q].rss_qp /\ ~is_xrc_tgt(qps[q].qp_type)
                => uidx_table[qps[q].rsn] = QpRef(q)
    /\ \A x \in srq_live :
          IF cqe_version # 0 /\ srqs[x].rsc_type = "XSRQ"
          THEN uidx_table[srqs[x].rsn] = SrqRef(x)
          ELSE srq_table[srqs[x].srqn] = SrqRef(x)
    /\ \A w \in wq_live : uidx_table[wqs[w].rsn] = WqRef(w)

\* a clear the step of thread t makes drops the entry of the object the
\* call releases, or one the same call stored
ClearsMatched(t) ==
    \A i \in 1..Len(NewEvents(t)) :
       LET e == NewEvents(t)[i] IN
       /\ e[1] = "clear_qp" => qp_table[e[2]] = QpRef(t_qp[t])
       /\ e[1] = "clear_srq" => srq_table[e[2]] = SrqRef(t_obj[t])
       /\ e[1] = "clear_uidx" =>
             \/ uidx_table[e[2]] # NoRef
             \/ \E j \in 1..(i - 1) : NewEvents(t)[j] = <<"store_uidx", e[2]>>

C36_TablesExact ==
    [][/\ EntriesNameLiveObjects'
       /\ LiveObjectsHaveEntries'
       /\ \A t \in Threads : ClearsMatched(t)]_vars

\* without user indexes a DCT that its modify to RTR had stored has been
\* destroyed and its entry cleared (a DCT has no doorbell record to free),
\* while a second DCT, whose store found no memory, is alive without an
\* entry
C36_Witness ==
    \E t \in Threads :
        /\ pc[t] = "done" /\ ret[t] = "OK"
        /\ op[t].name = "mlx5_destroy_qp"
        /\ \E n \in Qpns : <<"clear_qp", n>> \in Elems(trace[t])
        /\ <<"free_db", op[t].arg>> \notin Elems(trace[t])
        /\ \E q \in qp_live :
              /\ qps[q].dc_type = "DCT"
              /\ qps[q].kstate = "RTR" /\ qps[q].state = "INIT"
              /\ \A n \in Qpns : qp_table[n] # QpRef(q)


\* ------------------------------------------------------------------ C37
\* C37: if the kernel modify command fails in mlx5_modify_wq, the receive
\* work queue's local state is unchanged: its completions are still in
\* its CQ, its cursors are not reset and its doorbell record is not
\* zeroed.

\* wq->state and the states a request names; "none" in a request is a
\* state bit missing from attr->attr_mask
WqStates == {"RESET", "RDY", "ERR"}

ModifyWqAttrs ==
    [wq_state : {"none"} \cup WqStates, curr_wq_state : {"none"} \cup WqStates]

\* lines 2837-2841: the request to go to RDY names a current state other
\* than wq->state
modify_wq_einval(wq, attr) ==
    /\ attr.wq_state = "RDY"
    /\ attr.curr_wq_state # "none"
    /\ attr.curr_wq_state # wq.state

\* a modify that prepares no queue
modify_wq_resets_never(wq, attr) == FALSE

\* lines 2837-2838 and 2843: a queue in RESET is prepared for RDY
modify_wq_resets(wq, attr) == attr.wq_state = "RDY" /\ wq.state = "RESET"

\* mlx5_init_rwq_indices, line 2848: the cursors of the receive queue
mlx5_init_rwq_indices(wq) == [wq EXCEPT !.rq.head = 0, !.rq.tail = 0]

\* ibv_cmd_modify_wq, line 2854, on the queue as the lines before left
\* it: the command fails, or succeeds and writes wq->state
modify_wq_cmd(t, w, attr, wq, events) ==
    \/ \E e \in KernelErrnos :
          /\ Finish(t, e)
          /\ wqs' = [wqs EXCEPT ![w] = wq]
          /\ trace' = [trace EXCEPT ![t] =
                @ \o events \o <<<<"cmd_modify_wq", w>>, <<"cmd_failed", e>>>>]
    \/ /\ Finish(t, "OK")
       /\ wqs' = [wqs EXCEPT ![w] =
                    IF attr.wq_state = "none" THEN wq
                    ELSE [wq EXCEPT !.state = attr.wq_state]]
       /\ trace' = [trace EXCEPT ![t] = @ \o events \o <<<<"cmd_modify_wq", w>>>>]

\* mlx5_modify_wq, lines 2832-2843 and 2854
mlx5_modify_wq(t) ==
    /\ \E w \in WqIds, attr \in ModifyWqAttrs :
         /\ WqCallable(w)
         /\ Call(t, "mlx5_modify_wq", [wq |-> w, attr |-> attr])
         /\ IF modify_wq_einval(wqs[w], attr)
            THEN /\ Finish(t, "EINVAL")
                 /\ UNCHANGED <<wqs, trace, t_obj>>
            ELSE IF modify_wq_resets(wqs[w], attr)
            THEN /\ t_obj' = [t_obj EXCEPT ![t] = w]
                 /\ Goto(t, "modify_wq_lock")
                 /\ UNCHANGED <<wqs, trace>>
            ELSE /\ modify_wq_cmd(t, w, attr, wqs[w], <<>>)
                 /\ UNCHANGED t_obj
    /\ UNCHANGED <<tdvars, pdvars, ctxvars, cqobjs, cqvars, qp_live, qps,
                   srq_live, srqs, wq_live, k_live, tblvars, t_qp>>

\* mlx5_modify_wq, lines 2844-2854: the CQ is scavenged under its lock,
\* the cursors are reset and both halves of the doorbell record zeroed
\* (lines 2849-2850), then the kernel command is issued
modify_wq_clean(t) ==
    /\ pc[t] = "modify_wq_lock"
    /\ LET w == t_obj[t]
           wq == wqs[w]
       IN
       /\ cq_lock[wq.cq] = NULL
       /\ cq_cqes' = mlx5_cq_clean(cq_cqes, wq.cq, wq.rsn, NULL)
       /\ modify_wq_cmd(t, w, op[t].arg.attr,
                        [mlx5_init_rwq_indices(wq) EXCEPT !.dbr = NoDbr],
                        <<<<"lock", wq.cq>>, <<"clean", wq.cq>>,
                          <<"nfreed", nfreed(cq_cqes, wq.cq, wq.rsn)>>,
                          <<"unlock", wq.cq>>>>)
    /\ UNCHANGED <<op, tdvars, pdvars, ctxvars, cqobjs, cq_cqn, cq_lock,
                   qp_live, qps, srq_live, srqs, wq_live, k_live, tblvars,
                   t_qp, t_obj>>

\* the thread that modifies the receive work queue
WqCallers == {Min(Threads)}

\* receive descriptors posted and the doorbell record rung
posted_rwq(wq, nr) ==
    [wq EXCEPT !.rq.head = nr, !.rq.tail = nr \div 2, !.dbr.rcv = nr]

\* a context with user indexes, one RC QP and one receive work queue that
\* share the last CQ; the work queue is in any state, idle or in use
InitWQ ==
    /\ InitTh /\ InitTdOne /\ InitPdOne
    /\ cqe_version = 1
    /\ InitCtx
    /\ InitCqs
    /\ cq_cqn = [c \in CqIds |-> c]
    /\ cq_lock = [c \in CqIds |-> NULL]
    /\ cq_cqes = [c \in CqIds |-> <<>>]
    /\ qp_live = {Min(QpIds)}
    /\ qps = [q \in QpIds |->
                IF q \in qp_live
                THEN created_qp("RC", "none", Min(CqIds), Max(CqIds), NULL,
                                NULL, nth_uidx(1), q, FALSE,
                                default_sizes("RC", "none"))
                ELSE NoQp]
    /\ srq_live = {}
    /\ srqs = [x \in SrqIds |-> NoSrq]
    /\ wq_live = WqIds
    /\ \E st \in WqStates, nr \in {0, 2} :
         wqs = [w \in WqIds |->
                  [posted_rwq(created_rwq(Max(CqIds), nth_uidx(2), w,
                                          default_rwq_sizes), nr)
                     EXCEPT !.state = st]]
    /\ k_live = {QpRef(q) : q \in qp_live} \cup {WqRef(w) : w \in wq_live}
    /\ uidx_table = [i \in UidxIds |->
                       IF i = 0 THEN QpRef(Min(QpIds))
                       ELSE IF i = 1 THEN WqRef(Min(WqIds)) ELSE NoRef]
    /\ qp_table = [n \in Qpns |-> NoRef]
    /\ srq_table = [n \in SrqIds |-> NoRef]
    /\ qp_table_mutex = NULL
    /\ srq_table_mutex = NULL
    /\ t_qp = [t \in Threads |-> NULL]
    /\ t_obj = [t \in Threads |-> NULL]

\* the receive work queue is modified while the device completes work
\* requests
NextWQ ==
    \/ HwComplete
    \/ \E t \in WqCallers :
        \/ mlx5_modify_wq(t)
        \/ modify_wq_clean(t)
        \/ Return(t)

SpecWQ == InitWQ /\ [][NextWQ]_vars

\* the step returns from mlx5_modify_wq called on work queue w with the
\* request attr, its kernel command having failed
ModifyWqCmdFails(t, w, attr) ==
    /\ pc[t] # "done" /\ pc'[t] = "done"
    /\ op'[t] = [name |-> "mlx5_modify_wq", arg |-> [wq |-> w, attr |-> attr]]
    /\ ret'[t] \in KernelErrnos

\* the statement as written: the failing call changes neither the work
\* queue nor the CQs
C37_FailedModifyKeepsState ==
    [][\A t \in Threads, w \in WqIds, attr \in ModifyWqAttrs :
          ModifyWqCmdFails(t, w, attr) =>
              wqs'[w] = wqs[w] /\ cq_cqes' = cq_cqes]_vars

\* the completions of CQ c that carry another resource number than rsn
OthersIn(cqes, rsn) == SelectSeq(cqes, LAMBDA e : cqe_rsn(e) # rsn)

\* C37 as the code has it: mlx5_modify_wq prepares a work queue that is in
\* RESET and asked to be RDY before the kernel command is issued, so when
\* the command then fails the work queue is still in RESET with none of
\* its completions left in its CQ (those of other owners are kept in
\* order), both cursors 0 and both doorbell halves 0; a failing command
\* of any other request leaves the work queue and the CQs as they were.
C37_FailedModifyKeepsOrPrepares ==
    [][\A t \in Threads, w \in WqIds, attr \in ModifyWqAttrs :
          ModifyWqCmdFails(t, w, attr) =>
              IF attr.wq_state = "RDY" /\ wqs[w].state = "RESET"
              THEN /\ wqs'[w].state = "RESET"
                   /\ wqs'[w].rq.head = 0 /\ wqs'[w].rq.tail = 0
                   /\ wqs'[w].dbr = NoDbr
                   /\ \A c \in CqIds :
                        cq_cqes'[c] = IF c = wqs[w].cq
                                      THEN OthersIn(cq_cqes[c], wqs[w].rsn)
                                      ELSE cq_cqes[c]
                   /\ [wqs'[w] EXCEPT !.rq = wqs[w].rq, !.dbr = wqs[w].dbr]
                         = wqs[w]
              ELSE wqs'[w] = wqs[w] /\ cq_cqes' = cq_cqes]_vars

\* the kernel command has failed for a work queue in RESET asked to be
\* RDY that had completions waiting next to another owner's: its
\* completions are gone, the other owner's is left
C37_Witness ==
    \E t \in Threads, w \in wq_live :
        /\ pc[t] = "done" /\ ret[t] \in KernelErrnos
        /\ op[t].name = "mlx5_modify_wq" /\ op[t].arg.wq = w
        /\ \E n \in 1..MaxCqe : <<"nfreed", n>> \in Elems(trace[t])
        /\ wqs[w].state = "RESET" /\ wqs[w].dbr = NoDbr
        /\ wqs[w].buf_size > 0
        /\ cq_cqes[wqs[w].cq] # <<>>


\* ------------------------------------------------------------------ C38
\* C38: for a tag-matching SRQ, over any sequence of mlx5_destroy_srq
\* calls, failing and retried ones included, the command QP is destroyed
\* at most once and always before the SRQ's kernel destroy command is
\* issued; when the destruction of the command QP fails, the SRQ and the
\* command QP are left as they were.

\* the command QP of the tag-matching SRQ and the SRQ
CmdQp == Min(QpIds)
TmSrq == Min(SrqIds)

\* the QP create_cmd_qp asks for, lines 2355-2371: an RC QP on the SRQ,
\* both its CQs the SRQ's CQ
created_cmd_qp(c, x, usr_idx, q) ==
    created_qp("RC", "none", c, c, x, NULL, usr_idx, q, FALSE,
               mlx5_calc_wq_size(mctx,
                                 sizing_attr("RC", "none", DefaultCap, x),
                                 FALSE))

\* the struct mlx5_srq mlx5_create_srq_ex leaves for IBV_SRQT_TM, lines
\* 2527-2562
created_tm_srq(c, usr_idx, x, q) ==
    [created_xsrq(c, usr_idx, x) EXCEPT !.srq_type = "TM", !.cmd_qp = q]

\* a context of either indexing mode after mlx5_create_srq_ex has created
\* a tag-matching SRQ with its command QP, and an RC QP of the application
InitTM ==
    /\ InitTh /\ InitTdOne /\ InitPdOne
    /\ cqe_version \in {0, 1}
    /\ InitCtx
    /\ InitCqs
    /\ cq_cqn = [c \in CqIds |-> c]
    /\ cq_lock = [c \in CqIds |-> NULL]
    /\ cq_cqes = [c \in CqIds |-> <<>>]
    /\ qp_live = QpIds
    /\ srq_live = {TmSrq}
    /\ \E c \in CqIds :
         /\ qps = [q \in QpIds |->
                     IF q = CmdQp
                     THEN created_cmd_qp(c, TmSrq, nth_uidx(2), q)
                     ELSE created_qp("RC", "none", Min(CqIds), Max(CqIds),
                                     NULL, NULL, nth_uidx(q + 1), q, FALSE,
                                     default_sizes("RC", "none"))]
         /\ srqs = [x \in SrqIds |->
                      IF x = TmSrq
                      THEN created_tm_srq(c, nth_uidx(1), x, CmdQp)
                      ELSE NoSrq]
    /\ wq_live = {}
    /\ wqs = [w \in WqIds |-> NoWq]
    /\ k_live = {QpRef(q) : q \in qp_live} \cup {SrqRef(TmSrq)}
    /\ uidx_table = [i \in UidxIds |->
                       IF cqe_version = 0 THEN NoRef
                       ELSE IF i = nth_uidx(1) THEN SrqRef(TmSrq)
                       ELSE IF i = nth_uidx(2) THEN QpRef(CmdQp)
                       ELSE IF i \in qp_live \ {CmdQp} THEN QpRef(i)
                       ELSE NoRef]
    /\ qp_table = [n \in Qpns |->
                     IF cqe_version = 0 /\ n \in qp_live
                     THEN QpRef(n) ELSE NoRef]
    /\ srq_table = [n \in SrqIds |->
                      IF cqe_version = 0 /\ n = TmSrq
                      THEN SrqRef(n) ELSE NoRef]
    /\ qp_table_mutex = NULL
    /\ srq_table_mutex = NULL
    /\ t_qp = [t \in Threads |-> NULL]
    /\ t_obj = [t \in Threads |-> NULL]

\* the SRQ and the application's QP are destroyed, by two threads, while
\* the device completes work requests
NextTM ==
    \/ HwComplete
    \/ \E t \in Destroyers :
        \/ mlx5_destroy_srq(t)
        \/ destroy_srq_cmd(t)
        \/ mlx5_destroy_qp(t)
        \/ destroy_qp_lock_cqs(t)
        \/ destroy_qp_lock_second(t)
        \/ destroy_qp_clean(t)
        \/ Return(t)

SpecTM == InitTM /\ [][NextTM]_vars

\* the step of thread t issues the kernel command e
Issues(t, e) ==
    \E i \in 1..Len(NewEvents(t)) : NewEvents(t)[i] = e

\* the command QP is handed to the kernel's destroy only while it exists
CmdQpDestroyedOnce ==
    \A t \in Threads :
        Issues(t, <<"cmd_destroy_qp", CmdQp>>) =>
            /\ CmdQp \in qp_live
            /\ QpRef(CmdQp) \in k_live
            /\ srqs[TmSrq].cmd_qp = CmdQp

\* the SRQ's kernel destroy command is issued only after the command QP
\* has been destroyed and msrq->cmd_qp cleared
CmdQpDestroyedFirst ==
    \A t \in Threads :
        Issues(t, <<"cmd_destroy_srq", TmSrq>>) =>
            /\ srqs[TmSrq].cmd_qp = NULL
            /\ CmdQp \notin qp_live
            /\ QpRef(CmdQp) \notin k_live

\* a call of mlx5_destroy_srq that returns the error of the command QP's
\* kernel destroy changes no object, no table and no CQ
CmdQpFailureKeepsAll ==
    \A t \in Threads :
        /\ Issues(t, <<"cmd_destroy_qp", CmdQp>>)
        /\ pc'[t] = "done"
        => /\ op'[t] = [name |-> "mlx5_destroy_srq", arg |-> TmSrq]
           /\ ret'[t] \in KernelErrnos
           /\ UNCHANGED <<objvars, tblvars, cqvars>>

C38_CmdQpOnceAndFirst ==
    [][CmdQpDestroyedOnce /\ CmdQpDestroyedFirst /\ CmdQpFailureKeepsAll]_vars

\* a retried mlx5_destroy_srq has succeeded without a command QP to
\* destroy: an earlier call had destroyed it and then failed on the SRQ's
\* own kernel command
C38_Witness ==
    \E t \in Threads :
        /\ pc[t] = "done" /\ ret[t] = "OK"
        /\ op[t] = [name |-> "mlx5_destroy_srq", arg |-> TmSrq]
        /\ <<"cmd_destroy_qp", CmdQp>> \notin Elems(trace[t])
        /\ <<"cmd_destroy_srq", TmSrq>> \in Elems(trace[t])
        /\ TmSrq \notin srq_live /\ CmdQp \notin qp_live


\* ------------------------------------------------------------------ C39
\* C39: in mlx5_destroy_qp every CQ handed to the scavenging routine is an
\* existing, non-null CQ whose lock the destroying thread holds at that
\* moment, whether the QP's send CQ and receive CQ are present, absent,
\* equal or different.

\* the kind of QP that has the CQs s and r: an XRC target has none, an
\* XRC initiator no receive CQ
qp_type_of_cqs(s, r) ==
    IF s = NULL /\ r = NULL THEN "XRC_RECV"
    ELSE IF r = NULL THEN "XRC_SEND"
    ELSE "RC"

\* the QP create_qp leaves for the CQs s and r
created_qp_on(s, r, q) ==
    LET qp_type == qp_type_of_cqs(s, r) IN
    created_qp(qp_type, "none", s, r, NULL, NULL,
               IF is_xrc_tgt(qp_type) THEN -1 ELSE nth_uidx(q), q, FALSE,
               mlx5_calc_wq_size(mctx,
                                 sizing_attr(qp_type, "none",
                                             IF is_xrc_tgt(qp_type)
                                             THEN NoCap ELSE DefaultCap,
                                             NULL),
                                 FALSE))

\* a context of either indexing mode with one QP whose send CQ and receive
\* CQ are each absent or any CQ, and an RC QP on the first and the last CQ
InitNC ==
    /\ InitTh /\ InitTdOne /\ InitPdOne
    /\ cqe_version \in {0, 1}
    /\ InitCtx
    /\ InitCqs
    /\ cq_cqn = [c \in CqIds |-> c]
    /\ cq_lock = [c \in CqIds |-> NULL]
    /\ cq_cqes = [c \in CqIds |-> <<>>]
    /\ qp_live = ScenarioQps
    /\ \E s \in {NULL} \cup CqIds, r \in {NULL} \cup CqIds :
         qps = [q \in QpIds |->
                  IF q = Min(QpIds) THEN created_qp_on(s, r, q)
                  ELSE IF q \in ScenarioQps
                  THEN created_qp_on(Min(CqIds), Max(CqIds), q)
                  ELSE NoQp]
    /\ srq_live = {}
    /\ srqs = [x \in SrqIds |-> NoSrq]
    /\ wq_live = {}
    /\ wqs = [w \in WqIds |-> NoWq]
    /\ k_live = {QpRef(q) : q \in qp_live}
    /\ uidx_table = [i \in UidxIds |->
                       IF \E q \in qp_live : cqe_version # 0 /\ qps[q].cmd_uidx = i
                       THEN QpRef(i + 1) ELSE NoRef]
    /\ qp_table = [n \in Qpns |->
                     IF cqe_version = 0 /\ n \in qp_live /\ qps[n].has_wq
                     THEN QpRef(n) ELSE NoRef]
    /\ srq_table = [n \in SrqIds |-> NoRef]
    /\ qp_table_mutex = NULL
    /\ srq_table_mutex = NULL
    /\ t_qp = [t \in Threads |-> NULL]
    /\ t_obj = [t \in Threads |-> NULL]

\* the QPs are destroyed by two threads while the device completes work
\* requests
NextNC ==
    \/ HwComplete
    \/ \E t \in Destroyers :
        \/ mlx5_destroy_qp(t)
        \/ destroy_qp_lock_cqs(t)
        \/ destroy_qp_lock_second(t)
        \/ destroy_qp_clean(t)
        \/ Return(t)

SpecNC == InitNC /\ [][NextNC]_vars

\* the CQ arguments of the calls of __mlx5_cq_clean the step of thread t
\* makes inside mlx5_destroy_qp
CleanArgs(t) ==
    IF pc[t] = "clean" /\ pc'[t] # "clean"
    THEN {NewEvents(t)[i][2] : i \in {j \in 1..Len(NewEvents(t)) :
                                     NewEvents(t)[j][1] = "clean"}}
    ELSE {}

\* the statement as written: no call is made with a null CQ
C39_ScavengedCqsLocked ==
    [][\A t \in Threads : \A c \in CleanArgs(t) :
          c # NULL /\ c \in cq_live /\ cq_lock[c] = t]_vars

\* C39 as the code has it: mlx5_destroy_qp calls the scavenging routine
\* for the receive CQ, and for the send CQ when it is another one, also
\* when that CQ is absent; every CQ handed over that is not null is an
\* existing CQ whose lock the destroying thread holds at that moment, a
\* null one is handed over exactly when the QP lacks its send CQ or its
\* receive CQ, and the step changes the contents of no CQ whose lock the
\* thread does not hold.
C39_PresentCqsLocked ==
    [][\A t \in Threads :
          /\ \A c \in CleanArgs(t) \ {NULL} : c \in cq_live /\ cq_lock[c] = t
          /\ CleanArgs(t) # {} =>
                /\ CleanArgs(t) \ {NULL} =
                     {qps[t_qp[t]].send_cq, qps[t_qp[t]].recv_cq} \ {NULL}
                /\ (NULL \in CleanArgs(t)) <=>
                     (qps[t_qp[t]].recv_cq = NULL \/ qps[t_qp[t]].send_cq = NULL)
          /\ pc[t] = "clean" /\ pc'[t] # "clean" =>
                \A c \in CqIds : cq_cqes'[c] # cq_cqes[c] => cq_lock[c] = t]_vars

\* an XRC initiator, which has no receive CQ, has been destroyed: the
\* routine was called with NULL and with the send CQ, whose completions of
\* the QP it dropped, while the other thread was inside the destroy of the
\* other QP
C39_Witness ==
    \E t, u \in Threads :
        /\ pc[t] = "done" /\ ret[t] = "OK"
        /\ op[t].name = "mlx5_destroy_qp"
        /\ <<"clean", NULL>> \in Elems(trace[t])
        /\ \E c \in CqIds :
              /\ <<"lock", c>> \in Elems(trace[t])
              /\ <<"clean", c>> \in Elems(trace[t])
              /\ Before(trace[t], <<"lock", c>>, <<"clean", c>>)
        /\ \E n \in 1..MaxCqe : <<"nfreed", n>> \in Elems(trace[t])
        /\ u # t /\ pc[u] \in {"lock_cqs", "lock_second", "clean"}

============================================================================
